---- MODULE Spec2Model ----
(***************************************************************************)
(* A model of schollz/pake (pake.go): the PAKE2 exchange between sessions  *)
(* over the curves of the registry.                                        *)
(*                                                                         *)
(* Scale.  The registry's curves have 255..521-bit fields; the model keeps *)
(* the registry's names and the code's arithmetic and replaces each curve  *)
(* by a curve of the same family over a field that fits one byte:          *)
(* short-Weierstrass curves of prime order with the point at infinity      *)
(* written (0, 0), and a twisted Edwards curve (a = -1) with a one-byte    *)
(* compressed encoding (7 bits of y, 1 sign bit of x) in place of the      *)
(* 32-byte one.  Scalars stay byte strings of the code's lengths.          *)
(*                                                                         *)
(* A *big.Int is <<>> (nil) or <<n>>; a []byte is a sequence of 0..255.    *)
(***************************************************************************)
EXTENDS Integers, Sequences, FiniteSets, TLC

\* ------------------------------------------------------------------ bounds
\* the largest value of the varying (last) byte of a sampled scalar
MaxAlpha == 1
\* weak keys are <<>> and <<1, 2, b>> for b in 3..MaxPwByte
MaxPwByte == 3
\* a forged message carries coordinates nil and 0..MaxCoord
MaxCoord == 2

\* ------------------------------------------------------- big.Int and bytes
Nil == <<>>

Int1(n) == <<n>>

IsNil(b) == b = <<>>

Val(b) == b[1]

Abs(n) == IF n < 0 THEN 0 - n ELSE n

RECURSIVE BytesOfNat(_)
BytesOfNat(n) == IF n = 0 THEN <<>> ELSE Append(BytesOfNat(n \div 256), n % 256)

\* (*big.Int).Bytes(): the big-endian bytes of |n|, no leading zero
BigBytes(n) == BytesOfNat(Abs(n))

RECURSIVE SetBytes(_)
\* (*big.Int).SetBytes(): the big-endian value of a byte string
SetBytes(bs) ==
  IF bs = <<>> THEN 0
  ELSE 256 * SetBytes(SubSeq(bs, 1, Len(bs) - 1)) + bs[Len(bs)]

Zeros(n) == [i \in 1..n |-> 0]

\* copy(key[n-len(k):], k) into make([]byte, n), for len(k) <= n
LeftPad(bs, n) == Zeros(n - Len(bs)) \o bs

RECURSIVE BigEndianMod(_, _)
\* the big-endian value of a byte string, modulo m
BigEndianMod(bs, m) ==
  IF bs = <<>> THEN 0
  ELSE (256 * BigEndianMod(SubSeq(bs, 1, Len(bs) - 1), m) + bs[Len(bs)]) % m

RECURSIVE LittleEndianMod(_, _)
\* the little-endian value of a byte string, modulo m
LittleEndianMod(bs, m) ==
  IF bs = <<>> THEN 0
  ELSE (bs[1] + 256 * LittleEndianMod(Tail(bs), m)) % m

\* ------------------------------------------------------------ the curves
\* a name listed with no case in the switch
AvailableCurvesMore == <<"p521", "p256", "p384", "siec", "ed25519", "bad">>

AvailableCurves == <<"p521", "p256", "p384", "siec", "ed25519">>

CurveNames == {AvailableCurves[i] : i \in 1..Len(AvailableCurves)}

IsEdwards(name) == name = "ed25519"

\* y^2 = x^3 + a*x + b over F_p, of prime order n, base point (gx, gy)
WeierstrassParams(name) ==
  CASE name = "p256" -> [p |-> 7,  a |-> 4, b |-> 1, n |-> 5,  gx |-> 0, gy |-> 1]
    [] name = "p384" -> [p |-> 7,  a |-> 4, b |-> 6, n |-> 11, gx |-> 1, gy |-> 2]
    [] name = "p521" -> [p |-> 11, a |-> 8, b |-> 1, n |-> 17, gx |-> 0, gy |-> 1]
    [] name = "siec" -> [p |-> 7,  a |-> 0, b |-> 3, n |-> 13, gx |-> 1, gy |-> 2]

\* -x^2 + y^2 = 1 + d*x^2*y^2 over F_p; the base point has prime order l
\* and a point is encoded in encLen bytes
EdwardsParams == [p |-> 13, d |-> 5, l |-> 3, encLen |-> 1]

Inv(x, p) == CHOOSE y \in 1..(p - 1) : (x * y) % p = 1

Infinity == <<0, 0>>

OnWeierstrass(cv, x, y) ==
  /\ x \in 0..(cv.p - 1)
  /\ y \in 0..(cv.p - 1)
  /\ (y * y) % cv.p = (x * x * x + cv.a * x + cv.b) % cv.p

\* the group law in affine coordinates, (0, 0) standing for the point at infinity
WAdd(cv, P, Q) ==
  IF P = Infinity THEN Q
  ELSE IF Q = Infinity THEN P
  ELSE IF P[1] = Q[1] /\ (P[2] + Q[2]) % cv.p = 0 THEN Infinity
  ELSE LET lam == IF P = Q
                  THEN ((3 * P[1] * P[1] + cv.a) * Inv((2 * P[2]) % cv.p, cv.p)) % cv.p
                  ELSE ((Q[2] - P[2]) * Inv((Q[1] - P[1]) % cv.p, cv.p)) % cv.p
           x3 == (lam * lam - P[1] - Q[1]) % cv.p
       IN <<x3, (lam * (P[1] - x3) - P[2]) % cv.p>>

RECURSIVE WMul(_, _, _)
WMul(cv, k, P) == IF k = 0 THEN Infinity ELSE WAdd(cv, P, WMul(cv, k - 1, P))

EdIdentity == <<0, 1>>

OnEdwards(x, y) ==
  LET p == EdwardsParams.p
  IN (y * y - x * x) % p = (1 + EdwardsParams.d * x * x * y * y) % p

EAdd(P, Q) ==
  LET p == EdwardsParams.p
      t == (EdwardsParams.d * P[1] * Q[1] * P[2] * Q[2]) % p
  IN <<((P[1] * Q[2] + Q[1] * P[2]) * Inv((1 + t) % p, p)) % p,
       ((P[2] * Q[2] + P[1] * Q[1]) * Inv((1 - t) % p, p)) % p>>

ENeg(P) == <<(0 - P[1]) % EdwardsParams.p, P[2]>>

RECURSIVE EMul(_, _)
EMul(k, P) == IF k = 0 THEN EdIdentity ELSE EAdd(P, EMul(k - 1, P))

\* the base point: a point of order l
EdBase == CHOOSE P \in (0..(EdwardsParams.p - 1)) \X (0..(EdwardsParams.p - 1)) :
            /\ OnEdwards(P[1], P[2])
            /\ P # EdIdentity
            /\ EMul(EdwardsParams.l, P) = EdIdentity

\* (*Point).Bytes(): y, with the sign (parity) of x in the top bit
EdEncode(P) == <<P[2] + 128 * (P[1] % 2)>>

\* (*Point).SetBytes(): <<>> is the error; a non-canonical y is reduced
EdDecode(bs) ==
  LET p    == EdwardsParams.p
      sign == bs[1] \div 128
      y    == (bs[1] % 128) % p
      xs   == {x \in 0..(p - 1) : OnEdwards(x, y)}
  IN IF xs = {} THEN <<>>
     ELSE LET x == CHOOSE v \in xs : v % 2 = 0
          IN IF sign = 1 THEN <<<<(0 - x) % p, y>>>> ELSE <<<<x, y>>>>

\* ------------------------------------- Edwards25519Curve (pake.go:25-111)
ScalarLen == 32

\* a point is a pair <<x, y>> of *big.Int
Pt(x, y) == <<Int1(x), Int1(y)>>

NilPoint == <<Nil, Nil>>

normalizeScalar(k) ==
  IF Len(k) >= ScalarLen THEN SubSeq(k, 1, ScalarLen) ELSE LeftPad(k, ScalarLen)

\* (*Scalar).SetBytesWithClamping: key[0] &= 248, key[31] &= 63, key[31] |= 64,
\* then the little-endian value modulo the order l of the base point
SetBytesWithClamping(key) ==
  LET n  == Len(key)
      ck == [i \in 1..n |->
               IF i = 1 /\ i = n THEN ((key[i] - (key[i] % 8)) % 64) + 64
               ELSE IF i = 1 THEN key[i] - (key[i] % 8)
               ELSE IF i = n THEN (key[i] % 64) + 64
               ELSE key[i]]
  IN LittleEndianMod(ck, EdwardsParams.l)

\* the point is stored entirely in x; y is ignored
ed25519PointFromBigInts(x, y) ==
  LET xBytes == BigBytes(Val(x))
  IN IF Len(xBytes) <= EdwardsParams.encLen
     THEN LeftPad(xBytes, EdwardsParams.encLen)
     ELSE Zeros(EdwardsParams.encLen)

ed25519PointToBigInts(pointBytes) ==
  IF Len(pointBytes) # EdwardsParams.encLen THEN Pt(0, 0)
  ELSE Pt(SetBytes(pointBytes), 0)

EdPoint(P) == EdDecode(ed25519PointFromBigInts(P[1], P[2]))

EdAdd(P, Q) ==
  IF EdPoint(P) = <<>> \/ EdPoint(Q) = <<>> THEN Pt(0, 0)
  ELSE ed25519PointToBigInts(EdEncode(EAdd(EdPoint(P)[1], EdPoint(Q)[1])))

\* the subtraction done as on the other curves: Add with the y of Q negated
SubtractByNegation(P, Q) == EdAdd(P, <<Q[1], Int1(0 - Val(Q[2]))>>)

Subtract(P, Q) ==
  IF EdPoint(P) = <<>> \/ EdPoint(Q) = <<>> THEN Pt(0, 0)
  ELSE ed25519PointToBigInts(EdEncode(EAdd(EdPoint(P)[1], ENeg(EdPoint(Q)[1]))))

EdScalarBaseMult(k) ==
  ed25519PointToBigInts(EdEncode(EMul(SetBytesWithClamping(normalizeScalar(k)), EdBase)))

EdScalarMult(B, k) ==
  IF EdPoint(B) = <<>> THEN Pt(0, 0)
  ELSE ed25519PointToBigInts(
         EdEncode(EMul(SetBytesWithClamping(normalizeScalar(k)), EdPoint(B)[1])))

EdIsOnCurve(P) == EdPoint(P) # <<>>

\* ------------------- the short-Weierstrass curves behind EllipticCurve
\* (crypto/elliptic and siec: the operands are valid points, (0, 0) included)
Raw(P) == <<Val(P[1]), Val(P[2])>>

WeierstrassAdd(name, P, Q) ==
  LET R == WAdd(WeierstrassParams(name), Raw(P), Raw(Q)) IN Pt(R[1], R[2])

WeierstrassScalarMult(name, B, k) ==
  LET cv == WeierstrassParams(name)
      R  == WMul(cv, BigEndianMod(k, cv.n), Raw(B))
  IN Pt(R[1], R[2])

WeierstrassScalarBaseMult(name, k) ==
  LET cv == WeierstrassParams(name)
  IN WeierstrassScalarMult(name, Pt(cv.gx, cv.gy), k)

\* (0, 0), a negative or overflowing coordinate and a point off the curve are rejected
WeierstrassIsOnCurve(name, P) ==
  /\ Raw(P) # Infinity
  /\ OnWeierstrass(WeierstrassParams(name), Val(P[1]), Val(P[2]))

\* ------------------------------------------ EllipticCurve (pake.go:18-23)
Add(curve, P, Q) ==
  IF IsEdwards(curve) THEN EdAdd(P, Q) ELSE WeierstrassAdd(curve, P, Q)

ScalarBaseMult(curve, k) ==
  IF IsEdwards(curve) THEN EdScalarBaseMult(k) ELSE WeierstrassScalarBaseMult(curve, k)

ScalarMult(curve, B, k) ==
  IF IsEdwards(curve) THEN EdScalarMult(B, k) ELSE WeierstrassScalarMult(curve, B, k)

\* the check that lets every point through
IsOnCurveAny(curve, P) == TRUE

IsOnCurve(curve, P) ==
  IF IsEdwards(curve) THEN EdIsOnCurve(P) ELSE WeierstrassIsOnCurve(curve, P)

\* IsOnCurve dereferences a nil *big.Int: x on Edwards25519 (x.Bytes()), x or y on
\* the other curves (x.Sign(), y.Sign())
IsOnCurvePanics(curve, P) ==
  IF IsEdwards(curve) THEN IsNil(P[1]) ELSE IsNil(P[1]) \/ IsNil(P[2])

\* -------------------------------------------------- Pake (pake.go:121-154)
\* new(Pake): Role 0, every pointer and slice nil, no curve
NewPake ==
  [Role |-> 0,
   Uu |-> Nil, Uv |-> Nil, Vu |-> Nil, Vv |-> Nil,
   Xu |-> Nil, Xv |-> Nil, Yu |-> Nil, Yv |-> Nil,
   curve |-> "", P |-> Nil, Pw |-> Nil,
   Vpwu |-> Nil, Vpwv |-> Nil, Upwu |-> Nil, Upwv |-> Nil,
   Aalpha |-> Nil, Aalphau |-> Nil, Aalphav |-> Nil,
   Zu |-> Nil, Zv |-> Nil, K |-> Nil]

\* the public view without Y
PublicNoY(p) ==
  [NewPake EXCEPT !.Role = p.Role,
                  !.Uu = p.Uu, !.Uv = p.Uv, !.Vu = p.Vu, !.Vv = p.Vv,
                  !.Xu = p.Xu, !.Xv = p.Xv]

\* the Pake itself in place of its public view
PublicAll(p) == p

Public(p) ==
  [NewPake EXCEPT !.Role = p.Role,
                  !.Uu = p.Uu, !.Uv = p.Uv, !.Vu = p.Vu, !.Vv = p.Vv,
                  !.Xu = p.Xu, !.Xv = p.Xv, !.Yu = p.Yu, !.Yv = p.Yv]

\* ------------------------------------------ initCurve (pake.go:165-218)
\* a U literal that is not on the curve
RegistryUOff(curve) == Pt(1, 1)

\* the fixed generators U and V of each curve
RegistryU(curve) ==
  CASE curve = "p521" -> Pt(5, 1)
    [] curve = "p256" -> Pt(4, 5)
    [] curve = "p384" -> Pt(2, 6)
    [] curve = "siec" -> Pt(6, 3)
    [] curve = "ed25519" -> Pt(6, 0)

RegistryV(curve) ==
  CASE curve = "p521" -> Pt(6, 10)
    [] curve = "p256" -> Pt(4, 2)
    [] curve = "p384" -> Pt(4, 4)
    [] curve = "siec" -> Pt(2, 2)
    [] curve = "ed25519" -> Pt(3, 0)

FieldPrime(curve) ==
  IF IsEdwards(curve) THEN EdwardsParams.p ELSE WeierstrassParams(curve).p

ErrNoSuchCurve == "no such curve"

ErrUNotOnCurve == "Ux/Uy not on curve"

ErrVNotOnCurve == "Vx/Vy not on curve"

\* the cases of the switch
Registered == {"p521", "p256", "p384", "siec", "ed25519"}

initCurve(curve) ==
  IF curve \notin Registered
  THEN [curve |-> "", P |-> Nil, U |-> NilPoint, V |-> NilPoint, err |-> ErrNoSuchCurve]
  ELSE [curve |-> curve, P |-> Int1(FieldPrime(curve)),
        U |-> RegistryU(curve), V |-> RegistryV(curve),
        err |-> IF ~IsOnCurve(curve, RegistryV(curve)) THEN ErrVNotOnCurve
                ELSE IF ~IsOnCurve(curve, RegistryU(curve)) THEN ErrUNotOnCurve
                ELSE ""]

\* ------------------------------------------------------------ crypto/rand
AlphaLen == 32

\* a buffer of 8 bytes whatever the length asked for
RandReadsEight(n) ==
  {[ok |-> TRUE, bytes |-> Zeros(7) \o <<a>>] : a \in 0..MaxAlpha}
    \cup {[ok |-> FALSE, bytes |-> Zeros(8)]}

\* rand.Read(buf): the buffer filled and no error, or an error and the buffer as made
RandReads(n) ==
  {[ok |-> TRUE, bytes |-> Zeros(n - 1) \o <<a>>] : a \in 0..MaxAlpha}
    \cup {[ok |-> FALSE, bytes |-> Zeros(n)]}

ErrRand == "rand.Read failed"

\* ------------------------------------------ InitCurve (pake.go:224-249)
\* every role but 0 taken for the responder's
IsResponderNonZero(role) == role # 0

\* if role == 1
IsResponder(role) == role = 1

InitCurveOf(pw, role, curve, rnd) ==
  LET c  == initCurve(curve)
      p0 == [NewPake EXCEPT !.curve = c.curve, !.P = c.P,
                            !.Uu = c.U[1], !.Uv = c.U[2],
                            !.Vu = c.V[1], !.Vv = c.V[2]]
  IN IF c.err # "" THEN [p |-> p0, err |-> c.err]
     ELSE IF IsResponder(role) THEN [p |-> [p0 EXCEPT !.Pw = pw, !.Role = 1], err |-> ""]
     ELSE LET Vpw == ScalarMult(c.curve, c.V, pw)
              Upw == ScalarMult(c.curve, c.U, pw)
              p1  == [p0 EXCEPT !.Pw = pw, !.Role = 0,
                                !.Vpwu = Vpw[1], !.Vpwv = Vpw[2],
                                !.Upwu = Upw[1], !.Upwv = Upw[2],
                                !.Aalpha = rnd.bytes]
          IN IF ~rnd.ok THEN [p |-> p1, err |-> ErrRand]
             ELSE LET AG == ScalarBaseMult(c.curve, rnd.bytes)
                      X  == Add(c.curve, Upw, AG)
                  IN [p |-> [p1 EXCEPT !.Aalphau = AG[1], !.Aalphav = AG[2],
                                       !.Xu = X[1], !.Xv = X[2]],
                      err |-> ""]

\* --------------------------------------------------------- encoding/json
RECURSIVE Digits(_)
\* the decimal digits of a natural number, most significant first
Digits(n) == IF n < 10 THEN <<n>> ELSE Append(Digits(n \div 10), n % 10)

RECURSIVE FromDigits(_)
FromDigits(ds) ==
  IF ds = <<>> THEN 0 ELSE 10 * FromDigits(SubSeq(ds, 1, Len(ds) - 1)) + ds[Len(ds)]

JNull == [t |-> "null"]

\* a number literal: an optional minus sign and the decimal digits
JNum(n) == [t |-> "num", neg |-> n < 0, digits |-> Digits(Abs(n))]

\* a []byte is a (base64) string
JStr(bs) == [t |-> "str", bytes |-> bs]

\* a nil *big.Int written as the number 0
JBigZero(b) == IF IsNil(b) THEN JNum(0) ELSE JNum(Val(b))

\* a *big.Int is a number literal, and null when nil
JBig(b) == IF IsNil(b) THEN JNull ELSE JNum(Val(b))

JBytes(b) == IF IsNil(b) THEN JNull ELSE JStr(b)

BigFields ==
  {"Uu", "Uv", "Vu", "Vv", "Xu", "Xv", "Yu", "Yv", "P",
   "Vpwu", "Vpwv", "Upwu", "Upwv", "Aalphau", "Aalphav", "Zu", "Zv"}

ByteFields == {"Pw", "Aalpha", "K"}

\* json.Marshal(*Pake): one member for every exported field; curve is unexported
Marshal(p) ==
  [f \in {"Role"} \cup BigFields \cup ByteFields |->
     IF f = "Role" THEN JNum(p.Role)
     ELSE IF f \in BigFields THEN JBig(p[f])
     ELSE JBytes(p[f])]

\* peer bytes: a JSON object, or a text that is no JSON object
Object(doc) == [kind |-> "object", doc |-> doc]

Text(s) == [kind |-> "text", text |-> s]

\* Bytes(): the marshalled public view (pake.go:253-262)
Bytes(p) == Object(Marshal(Public(p)))

JToInt(v) == IF v.neg THEN 0 - FromDigits(v.digits) ELSE FromDigits(v.digits)

\* the error of json.Unmarshal dropped: q stays nil
UnmarshalUnchecked(raw) ==
  IF raw.kind = "text" THEN [err |-> FALSE, isNil |-> TRUE, q |-> NewPake]
  ELSE [err |-> FALSE, isNil |-> FALSE,
        q |-> [f \in DOMAIN NewPake |->
                 IF f \notin DOMAIN raw.doc THEN NewPake[f]
                 ELSE IF raw.doc[f].t = "null" THEN NewPake[f]
                 ELSE IF f = "Role" THEN JToInt(raw.doc[f])
                 ELSE IF f \in {"Pw", "Aalpha", "K"} THEN raw.doc[f].bytes
                 ELSE Int1(JToInt(raw.doc[f]))]]

\* the literal null refused as the texts that are no JSON are
UnmarshalNullFails(raw) ==
  IF raw.kind = "text" THEN [err |-> TRUE, isNil |-> TRUE, q |-> NewPake]
  ELSE [err |-> FALSE, isNil |-> FALSE,
        q |-> [f \in DOMAIN NewPake |->
                 IF f \notin DOMAIN raw.doc THEN NewPake[f]
                 ELSE IF raw.doc[f].t = "null" THEN NewPake[f]
                 ELSE IF f = "Role" THEN JToInt(raw.doc[f])
                 ELSE IF f \in BigFields THEN Int1(JToInt(raw.doc[f]))
                 ELSE raw.doc[f].bytes]]

\* json.Unmarshal(qBytes, &q) for var q *Pake: an error, q = nil for the literal
\* null, or a new Pake holding the members the object gives (null leaves a field)
Unmarshal(raw) ==
  IF raw.kind = "text"
  THEN IF raw.text = "null" THEN [err |-> FALSE, isNil |-> TRUE, q |-> NewPake]
       ELSE [err |-> TRUE, isNil |-> TRUE, q |-> NewPake]
  ELSE [err |-> FALSE, isNil |-> FALSE,
        q |-> [f \in DOMAIN NewPake |->
                 IF f \notin DOMAIN raw.doc THEN NewPake[f]
                 ELSE IF raw.doc[f].t = "null" THEN NewPake[f]
                 ELSE IF f = "Role" THEN JToInt(raw.doc[f])
                 ELSE IF f \in BigFields THEN Int1(JToInt(raw.doc[f]))
                 ELSE raw.doc[f].bytes]]

\* --------------------------------------------- Update (pake.go:267-355)
ErrJSON == "json: cannot unmarshal"

ErrRole == "can't have its own role"

ErrXNotOnCurve == "X values not on curve"

ErrYNotOnCurve == "Y values not on curve"

\* a nil pointer dereference: the call does not return
Panic == "panic"

\* the role check of the responder only
RoleCollisionResponder(p, q) == p.Role = 1 /\ q.Role = 1

RoleCollision(p, q) == p.Role = q.Role

\* v := new(big.Int).Neg(y), without v.Mod(v, p.P)
NegateUnreduced(y, P) == Int1(0 - Val(y))

\* v := new(big.Int).Neg(y); v.Mod(v, p.P)
Negate(y, P) == Int1((0 - Val(y)) % Val(P))

\* the sum in place of the difference: the y of B is not negated
PointSum(curve, P, A, B) == Add(curve, A, B)

\* A - B: Subtract on Edwards25519, Add with the negated y on the other curves
PointDifference(curve, P, A, B) ==
  IF IsEdwards(curve) THEN Subtract(A, B)
  ELSE Add(curve, A, <<B[1], Negate(B[2], P)>>)

DigestLen == 32

\* sha256: a digest of DigestLen bytes that determines the bytes hashed
Sum256(bytes) == <<[sha256 |-> bytes, len |-> DigestLen]>>

\* the hash without HB.Write(p.Pw)
HashInputNoPw(p) ==
  BigBytes(Val(p.Xu)) \o BigBytes(Val(p.Xv))
    \o BigBytes(Val(p.Yu)) \o BigBytes(Val(p.Yv))
    \o BigBytes(Val(p.Zu)) \o BigBytes(Val(p.Zv))

\* the hash of pw alone
HashInputPwOnly(p) == p.Pw

\* H(pw, X, Y, Z): the bytes written to the hash, in order
HashInput(p) ==
  p.Pw \o BigBytes(Val(p.Xu)) \o BigBytes(Val(p.Xv))
       \o BigBytes(Val(p.Yu)) \o BigBytes(Val(p.Yv))
       \o BigBytes(Val(p.Zu)) \o BigBytes(Val(p.Zv))

\* (*big.Int).Bytes() on a nil pointer
HashPanics(p) ==
  \E f \in {"Xu", "Xv", "Yu", "Yv", "Zu", "Zv"} : IsNil(p[f])

\* HB.Sum(nil), HA.Sum(nil) over what was written (pake.go:312-321, 344-352)
SessionHash(p) == Sum256(HashInput(p))

\* the peer's U and V copied along with X
CopyPublic(p, q) ==
  [p EXCEPT !.Uu = q.Uu, !.Uv = q.Uv, !.Vu = q.Vu, !.Vv = q.Vv,
            !.Xu = q.Xu, !.Xv = q.Xv]

\* p.Xu, p.Xv = q.Xu, q.Xv (pake.go:284)
CopyX(p, q) == [p EXCEPT !.Xu = q.Xu, !.Xv = q.Xv]

\* the responder's branch (pake.go:282-321); the error of rand.Read is dropped
UpdateResponder(p, q, rnd) ==
  LET X  == <<q.Xu, q.Xv>>
      p1 == CopyX(p, q)
  IN IF IsOnCurvePanics(p.curve, X) THEN [p |-> p1, err |-> Panic]
     ELSE IF ~IsOnCurve(p.curve, X) THEN [p |-> p1, err |-> ErrXNotOnCurve]
     ELSE LET Vpw == ScalarMult(p.curve, <<p.Vu, p.Vv>>, p.Pw)
              Upw == ScalarMult(p.curve, <<p.Uu, p.Uv>>, p.Pw)
              AG  == ScalarBaseMult(p.curve, rnd.bytes)
              Y   == Add(p.curve, Vpw, AG)
              Z   == ScalarMult(p.curve, PointDifference(p.curve, p.P, X, Upw),
                                rnd.bytes)
              p2  == [p1 EXCEPT !.Vpwu = Vpw[1], !.Vpwv = Vpw[2],
                                !.Upwu = Upw[1], !.Upwv = Upw[2],
                                !.Aalpha = rnd.bytes,
                                !.Aalphau = AG[1], !.Aalphav = AG[2],
                                !.Yu = Y[1], !.Yv = Y[2],
                                !.Zu = Z[1], !.Zv = Z[2]]
          IN IF HashPanics(p2) THEN [p |-> p2, err |-> Panic]
             ELSE [p |-> [p2 EXCEPT !.K = SessionHash(p2)], err |-> ""]

\* the point before the scalar multiplication stored over Vpw
UpdateInitiatorOverVpw(p, q) ==
  LET Y  == <<q.Yu, q.Yv>>
      p1 == [p EXCEPT !.Yu = q.Yu, !.Yv = q.Yv]
  IN IF IsOnCurvePanics(p.curve, Y) THEN [p |-> p1, err |-> Panic]
     ELSE IF ~IsOnCurve(p.curve, Y) THEN [p |-> p1, err |-> ErrYNotOnCurve]
     ELSE LET D  == PointDifference(p.curve, p.P, Y, <<p.Vpwu, p.Vpwv>>)
              Z  == ScalarMult(p.curve, D, p.Aalpha)
              p2 == [p1 EXCEPT !.Vpwu = D[1], !.Vpwv = D[2],
                               !.Zu = Z[1], !.Zv = Z[2]]
          IN IF HashPanics(p2) THEN [p |-> p2, err |-> Panic]
             ELSE [p |-> [p2 EXCEPT !.K = SessionHash(p2)], err |-> ""]

\* the initiator's branch (pake.go:322-353)
UpdateInitiator(p, q) ==
  LET Y  == <<q.Yu, q.Yv>>
      p1 == [p EXCEPT !.Yu = q.Yu, !.Yv = q.Yv]
  IN IF IsOnCurvePanics(p.curve, Y) THEN [p |-> p1, err |-> Panic]
     ELSE IF ~IsOnCurve(p.curve, Y) THEN [p |-> p1, err |-> ErrYNotOnCurve]
     ELSE LET Z  == ScalarMult(p.curve,
                               PointDifference(p.curve, p.P, Y, <<p.Vpwu, p.Vpwv>>),
                               p.Aalpha)
              p2 == [p1 EXCEPT !.Zu = Z[1], !.Zv = Z[2]]
          IN IF HashPanics(p2) THEN [p |-> p2, err |-> Panic]
             ELSE [p |-> [p2 EXCEPT !.K = SessionHash(p2)], err |-> ""]

\* the peer's X copied before the roles are compared
UpdateOfCopiesFirst(p, qBytes, rnd) ==
  LET u == Unmarshal(qBytes)
  IN IF u.err THEN [p |-> p, err |-> ErrJSON]
     ELSE IF u.isNil THEN [p |-> p, err |-> Panic]
     ELSE IF RoleCollision(p, u.q) THEN [p |-> CopyX(p, u.q), err |-> ErrRole]
     ELSE IF p.Role = 1 THEN UpdateResponder(p, u.q, rnd)
     ELSE UpdateInitiator(p, u.q)

\* Update(qBytes) on a session that is not nil (pake.go:272-355)
UpdateOf(p, qBytes, rnd) ==
  LET u == Unmarshal(qBytes)
  IN IF u.err THEN [p |-> p, err |-> ErrJSON]
     ELSE IF u.isNil THEN [p |-> p, err |-> Panic]
     ELSE IF RoleCollision(p, u.q) THEN [p |-> p, err |-> ErrRole]
     ELSE IF p.Role = 1 THEN UpdateResponder(p, u.q, rnd)
     ELSE UpdateInitiator(p, u.q)

\* ------------------------------------------- the receiver p of a method
\* a *Pake: nil, or pointing at a Pake
Ref(p) == [nil |-> FALSE, p |-> p]

NilRef == [nil |-> TRUE, p |-> NewPake]

ErrNotInitialized == "pake is not initialized"

\* the nil receiver dereferenced
PakeUpdateDerefs(ptr, qBytes, rnd) ==
  IF ptr.nil THEN [p |-> ptr.p, err |-> Panic] ELSE UpdateOf(ptr.p, qBytes, rnd)

\* p.Update(qBytes) with its nil check (pake.go:267-271)
PakeUpdate(ptr, qBytes, rnd) ==
  IF ptr.nil THEN [p |-> ptr.p, err |-> ErrNotInitialized]
  ELSE UpdateOf(ptr.p, qBytes, rnd)

\* ------------------------- SessionKey, HaveSessionKey (pake.go:360-377)
ErrNoKey == "session key not generated"

\* the key handed out and dropped from the session
SessionKeyOnce(p) ==
  [p |-> [p EXCEPT !.K = Nil], key |-> p.K, err |-> IF IsNil(p.K) THEN ErrNoKey ELSE ""]

\* p.SessionKey(): the key and the error returned, and the session after the call
SessionKey(p) ==
  [p |-> p, key |-> p.K, err |-> IF IsNil(p.K) THEN ErrNoKey ELSE ""]

\* the test made on X in place of K
HaveSessionKeyOnX(p) == ~IsNil(p.Xu)

HaveSessionKey(p) == ~IsNil(p.K)

\* p.HaveSessionKey() with its nil check (pake.go:372-377)
PakeHaveSessionKey(ptr) == IF ptr.nil THEN FALSE ELSE HaveSessionKey(ptr.p)

\* ------------------------------------------------------ the state machine
Sessions == {"A", "B"}

PwSet == {<<>>} \cup {<<1, 2, b>> : b \in 3..MaxPwByte}

\* texts that are not a JSON object
BadTexts == {"", "invalid json", "{", "{invalid:}", "{1:1}"}

ForgedCoords == {Nil} \cup {Int1(n) : n \in 0..MaxCoord}

ForgedPoints == ForgedCoords \X ForgedCoords

\* a message made by the network: an initiator's view carrying X, or a
\* responder's view carrying a point as X and Y
Forge(role, pt) ==
  Object(Marshal([NewPake EXCEPT !.Role = role,
                                 !.Xu = pt[1], !.Xv = pt[2],
                                 !.Yu = IF role = 1 THEN pt[1] ELSE Nil,
                                 !.Yv = IF role = 1 THEN pt[2] ELSE Nil]))

Forged == {Forge(role, pt) : role \in {0, 1}, pt \in ForgedPoints}

\* no call of rand.Read
NoRead == [ok |-> TRUE, bytes |-> <<>>]

\* what the rand.Read of a call can give: InitCurve reads random bytes for an
\* initiator only, and Update for a responder once X has passed the curve check
InitReads(role) == IF IsResponder(role) THEN {NoRead} ELSE RandReads(AlphaLen)

ReachesRead(p, q) ==
  /\ p.Role = 1
  /\ ~q.err /\ ~q.isNil
  /\ ~RoleCollision(p, q.q)
  /\ ~IsOnCurvePanics(p.curve, <<q.q.Xu, q.q.Xv>>)
  /\ IsOnCurve(p.curve, <<q.q.Xu, q.q.Xv>>)

UpdateReads(p, qBytes) ==
  IF ReachesRead(p, Unmarshal(qBytes)) THEN RandReads(AlphaLen) ELSE {NoRead}

\* how the rand.Read of a call went: not called, filled the buffer, or failed
ReadOutcome(rnd) == IF rnd = NoRead THEN "none" ELSE IF rnd.ok THEN "ok" ELSE "failed"

VARIABLES
  chosen,   \* the curve name the parties of this run use
  sess,     \* sess[s]: the Pake the caller holds as s
  initErr,  \* initErr[s]: "none" before InitCurve, then the error it returned
  calls,    \* calls[s]: the number of Update calls made on s
  updErr,   \* updErr[s]: what the last Update call on s returned
  peer,     \* peer[s]: what the last Update call on s was given
  last,     \* last[s]: the role InitCurve was given for s, and how the rand.Read
            \* of the last call on s went
  got       \* got[s]: the number of SessionKey calls on s since its last Update,
            \* and what the last of them returned

vars == <<chosen, sess, initErr, calls, updErr, peer, last, got>>

\* no SessionKey call yet
NotRead == [n |-> 0, key |-> Nil, err |-> ""]

\* the largest number of Update calls on one session
MaxCalls == 2

Other(s) ==
  CASE s = "A" -> "B"
    [] s = "B" -> "A"
    [] s = "C" -> "D"
    [] s = "D" -> "C"

Init ==
  /\ chosen \in CurveNames
  /\ sess = [s \in Sessions |-> NewPake]
  /\ initErr = [s \in Sessions |-> "none"]
  /\ calls = [s \in Sessions |-> 0]
  /\ updErr = [s \in Sessions |-> ""]
  /\ peer = [s \in Sessions |-> [kind |-> "none", Role |-> 0, from |-> "none", sent |-> 0]]
  /\ last = [s \in Sessions |-> [role |-> 0, rand |-> "none"]]
  /\ got = [s \in Sessions |-> NotRead]

\* p, err := InitCurve(pw, role, curve)
InitCurve(s, pw, role, curve, rnd) ==
  /\ initErr[s] = "none"
  /\ \E r \in {InitCurveOf(pw, role, curve, rnd)} :
       /\ sess' = [sess EXCEPT ![s] = r.p]
       /\ initErr' = [initErr EXCEPT ![s] = r.err]
  /\ last' = [last EXCEPT ![s] = [role |-> role, rand |-> ReadOutcome(rnd)]]
  /\ UNCHANGED <<chosen, calls, updErr, peer, got>>

\* what the caller can see of peer bytes: an object, the literal null, or garbage
WireKind(raw) ==
  IF raw.kind = "object" THEN "object"
  ELSE IF raw.text = "null" THEN "null" ELSE "garbage"

\* the Role an object carries
WireRole(raw) == IF raw.kind = "object" THEN JToInt(raw.doc.Role) ELSE 0

\* err := sess[s].Update(qBytes), on a session InitCurve returned without error.
\* peer[s] keeps what the bytes were: their kind, the Role they carry, who made
\* them (from) and how many Update calls their sender had made by then (sent).
Update(s, qBytes, rnd, from) ==
  /\ initErr[s] = ""
  /\ calls[s] < MaxCalls
  /\ \E r \in {PakeUpdate(Ref(sess[s]), qBytes, rnd)} :
       /\ sess' = [sess EXCEPT ![s] = r.p]
       /\ updErr' = [updErr EXCEPT ![s] = r.err]
  /\ peer' = [peer EXCEPT ![s] = [kind |-> WireKind(qBytes),
                                  Role |-> WireRole(qBytes),
                                  from |-> from,
                                  sent |-> calls[Other(s)]]]
  /\ calls' = [calls EXCEPT ![s] = @ + 1]
  /\ last' = [last EXCEPT ![s].rand = ReadOutcome(rnd)]
  /\ got' = [got EXCEPT ![s] = NotRead]
  /\ UNCHANGED <<chosen, initErr>>

\* The exchange: A is the initiator and B the responder, and each is given the
\* other's Bytes() as they are at that moment.
Deliver(s) ==
  /\ initErr[Other(s)] = ""
  /\ \E qBytes \in {Bytes(sess[Other(s)])} :
       \E rnd \in UpdateReads(sess[s], qBytes) : Update(s, qBytes, rnd, "peer")

Next ==
  \/ \E pw \in PwSet, rnd \in InitReads(0) : InitCurve("A", pw, 0, chosen, rnd)
  \/ \E pw \in PwSet : InitCurve("B", pw, 1, chosen, NoRead)
  \/ \E s \in Sessions : Deliver(s)

Spec == Init /\ [][Next]_vars

\* The exchange over a network that may put another point that is on the curve
\* in place of the one sent; each session is given one message.
Substituted(s) ==
  {Forge(1 - sess[s].Role, pt) :
     pt \in {q \in ForgedPoints : /\ ~IsNil(q[1]) /\ ~IsNil(q[2])
                                  /\ IsOnCurve(chosen, q)}}

Substitute(s) ==
  \E qBytes \in Substituted(s) :
    \E rnd \in UpdateReads(sess[s], qBytes) : Update(s, qBytes, rnd, "network")

NextTamper ==
  \/ \E pw \in PwSet, rnd \in InitReads(0) : InitCurve("A", pw, 0, chosen, rnd)
  \/ \E pw \in PwSet : InitCurve("B", pw, 1, chosen, NoRead)
  \/ \E s \in Sessions : calls[s] = 0 /\ Deliver(s)
  \/ \E s \in Sessions : calls[s] = 0 /\ Substitute(s)

SpecTamper == Init /\ [][NextTamper]_vars

\* One session against the network: the caller holds a single session of either
\* role and gives it its own Bytes(), forged objects and texts.
WireSession ==
  {<<Bytes(sess["A"]), "self">>}
    \cup {<<m, "network">> : m \in Forged \cup {Text(x) : x \in BadTexts \cup {"null"}}}

NextSession ==
  \/ \E pw \in PwSet, role \in {0, 1} :
       \E rnd \in InitReads(role) : InitCurve("A", pw, role, chosen, rnd)
  \/ \E w \in WireSession :
       \E rnd \in UpdateReads(sess["A"], w[1]) : Update("A", w[1], rnd, w[2])

SpecSession == Init /\ [][NextSession]_vars

\* One session against a network that fills the other members of the object:
\* the message carries a Role and a point, and with them another U and V, or
\* values under the names of the private fields.
Stuffings ==
  [plain |-> NewPake,
   generators |-> [NewPake EXCEPT !.Uu = Int1(1), !.Uv = Int1(1),
                                  !.Vu = Int1(2), !.Vv = Int1(2)],
   private |-> [NewPake EXCEPT !.P = Int1(7), !.Pw = <<9>>,
                               !.Vpwu = Int1(1), !.Vpwv = Int1(1),
                               !.Upwu = Int1(1), !.Upwv = Int1(1),
                               !.Aalpha = <<9>>,
                               !.Aalphau = Int1(1), !.Aalphav = Int1(1),
                               !.Zu = Int1(1), !.Zv = Int1(1),
                               !.K = <<9>>]]

ForgeWith(role, pt, extra) ==
  Object(Marshal([extra EXCEPT !.Role = role,
                               !.Xu = pt[1], !.Xv = pt[2],
                               !.Yu = IF role = 1 THEN pt[1] ELSE Nil,
                               !.Yv = IF role = 1 THEN pt[2] ELSE Nil]))

\* the points of these messages: none, one off every curve, and two on the curve
StuffedPoints == {NilPoint, Pt(1, 1), RegistryU(chosen), RegistryV(chosen)}

NextFields ==
  \/ \E pw \in PwSet, role \in {0, 1} :
       \E rnd \in InitReads(role) : InitCurve("A", pw, role, chosen, rnd)
  \/ \E role \in {0, 1}, pt \in StuffedPoints, x \in DOMAIN Stuffings :
       \E m \in {ForgeWith(role, pt, Stuffings[x])} :
         \E rnd \in UpdateReads(sess["A"], m) : Update("A", m, rnd, x)

SpecFields == Init /\ [][NextFields]_vars

\* Creating sessions: the caller gives InitCurve any curve name, role and pw
\* (TestBadCurve, TestInvalidInputs).
BadNames == {"bad", "invalid", ""}

Roles == {-1, 0, 1, 999}

\* a pw longer than a scalar
LongPw == <<1, 2, 3>> \o Zeros(ScalarLen - 2)

PwAny == PwSet \cup {LongPw}

InitAny ==
  /\ chosen \in CurveNames \cup BadNames
  /\ sess = [s \in Sessions |-> NewPake]
  /\ initErr = [s \in Sessions |-> "none"]
  /\ calls = [s \in Sessions |-> 0]
  /\ updErr = [s \in Sessions |-> ""]
  /\ peer = [s \in Sessions |-> [kind |-> "none", Role |-> 0, from |-> "none", sent |-> 0]]
  /\ last = [s \in Sessions |-> [role |-> 0, rand |-> "none"]]
  /\ got = [s \in Sessions |-> NotRead]

NextInit ==
  \E s \in Sessions, pw \in PwAny, role \in Roles :
    \E rnd \in InitReads(role) : InitCurve(s, pw, role, chosen, rnd)

SpecInit == InitAny /\ [][NextInit]_vars

\* The exchange with the keys read: the caller may call SessionKey() on a
\* session it holds at any moment, up to MaxReads times between two Updates.
MaxReads == 2

\* key, err := sess[s].SessionKey()
ReadKey(s) ==
  /\ initErr[s] = ""
  /\ got[s].n < MaxReads
  /\ \E r \in {SessionKey(sess[s])} :
       /\ sess' = [sess EXCEPT ![s] = r.p]
       /\ got' = [got EXCEPT ![s] = [n |-> @.n + 1, key |-> r.key, err |-> r.err]]
  /\ UNCHANGED <<chosen, initErr, calls, updErr, peer, last>>

NextRead ==
  \/ \E pw \in PwSet, rnd \in InitReads(0) : InitCurve("A", pw, 0, chosen, rnd)
  \/ \E pw \in PwSet : InitCurve("B", pw, 1, chosen, NoRead)
  \/ \E s \in Sessions : calls[s] = 0 /\ Deliver(s)
  \/ \E s \in Sessions : ReadKey(s)

SpecRead == Init /\ [][NextRead]_vars

\* A session variable that was never assigned (TestNilPakeOperations):
\* var p *Pake is nil until InitCurve's result is assigned to it.
NilUpdate(s, qBytes) ==
  /\ initErr[s] = "none"
  /\ calls[s] < MaxCalls
  /\ \E r \in {PakeUpdate(NilRef, qBytes, NoRead)} :
       updErr' = [updErr EXCEPT ![s] = r.err]
  /\ peer' = [peer EXCEPT ![s] = [kind |-> WireKind(qBytes),
                                  Role |-> WireRole(qBytes),
                                  from |-> "network",
                                  sent |-> 0]]
  /\ calls' = [calls EXCEPT ![s] = @ + 1]
  /\ UNCHANGED <<chosen, sess, initErr, last, got>>

NextNil ==
  \/ \E pw \in PwSet, role \in {0, 1} :
       \E rnd \in InitReads(role) : InitCurve("A", pw, role, chosen, rnd)
  \/ \E m \in Forged \cup {Text(x) : x \in BadTexts \cup {"null", "test"}} :
       NilUpdate("A", m)

SpecNil == Init /\ [][NextNil]_vars

\* Two pairs of sessions driven at once (TestConcurrentUsage): A with B and C
\* with D, the calls of one pair interleaved in any way with the calls of the
\* other; each session is given one message.
PairSessions == {"A", "B", "C", "D"}

\* the two pw the sessions of a pair are made with
PwPair == {<<>>, <<1, 2, 3>>}

InitPairs ==
  /\ chosen \in CurveNames
  /\ sess = [s \in PairSessions |-> NewPake]
  /\ initErr = [s \in PairSessions |-> "none"]
  /\ calls = [s \in PairSessions |-> 0]
  /\ updErr = [s \in PairSessions |-> ""]
  /\ peer = [s \in PairSessions |-> [kind |-> "none", Role |-> 0, from |-> "none", sent |-> 0]]
  /\ last = [s \in PairSessions |-> [role |-> 0, rand |-> "none"]]
  /\ got = [s \in PairSessions |-> NotRead]

NextPairs ==
  \/ \E s \in {"A", "C"}, pw \in PwPair, rnd \in InitReads(0) :
       InitCurve(s, pw, 0, chosen, rnd)
  \/ \E s \in {"B", "D"}, pw \in PwPair : InitCurve(s, pw, 1, chosen, NoRead)
  \/ \E s \in PairSessions : calls[s] = 0 /\ Deliver(s)

SpecPairs == InitPairs /\ [][NextPairs]_vars

\* Two exchanges with one pw, made with fresh sessions each; rand.Read fills the
\* buffer with bytes that vary at both ends.
FreshReads ==
  {[ok |-> TRUE, bytes |-> <<f>> \o Zeros(AlphaLen - 2) \o <<a>>] :
     f \in 0..1, a \in 0..MaxAlpha}
    \cup {[ok |-> FALSE, bytes |-> Zeros(AlphaLen)]}

DeliverFresh(s) ==
  /\ calls[s] = 0
  /\ initErr[Other(s)] = ""
  /\ \E qBytes \in {Bytes(sess[Other(s)])} :
       \E rnd \in (IF ReachesRead(sess[s], Unmarshal(qBytes)) THEN FreshReads ELSE {NoRead}) :
         Update(s, qBytes, rnd, "peer")

NextFresh ==
  \/ \E s \in {"A", "C"}, rnd \in FreshReads : InitCurve(s, <<1, 2, 3>>, 0, chosen, rnd)
  \/ \E s \in {"B", "D"} : InitCurve(s, <<1, 2, 3>>, 1, chosen, NoRead)
  \/ \E s \in PairSessions : DeliverFresh(s)

SpecFresh == InitPairs /\ [][NextFresh]_vars

\* A responder against the network: one message, whose X has an x from below 0
\* to above what the encoding of an ed25519 point can hold (255 in the model).
MaxWireX == 257

WireXs == ((0 - 2)..31) \cup (126..130) \cup (254..MaxWireX)

WireYs == {Int1(0), Int1(1)}

NextMember ==
  \/ \E pw \in PwSet : InitCurve("A", pw, 1, chosen, NoRead)
  \/ \E x \in WireXs, y \in WireYs :
       \E m \in {Forge(0, <<Int1(x), y>>)} :
         \E rnd \in UpdateReads(sess["A"], m) :
           calls["A"] = 0 /\ Update("A", m, rnd, "network")

SpecMember == Init /\ [][NextMember]_vars

\* The hash step alone (pake.go:312-321, 344-352): each session holds a pw and
\* coordinates of one or two bytes, and writes them to the hash.
MaxHashByte == 1

HashPws ==
  {<<>>} \cup {<<a>> : a \in 1..MaxHashByte}
         \cup {<<a, b>> : a \in 1..MaxHashByte, b \in 1..MaxHashByte}

HashInts ==
  (0..MaxHashByte) \cup {256 * a + b : a \in 1..MaxHashByte, b \in 1..MaxHashByte}

HashTuples ==
  {[NewPake EXCEPT !.Pw = pw, !.Xu = Int1(x), !.Xv = Int1(y),
                   !.Yu = Int1(3), !.Yv = Int1(4),
                   !.Zu = Int1(5), !.Zv = Int1(6)] :
     pw \in HashPws, x \in HashInts, y \in HashInts}

InitHash ==
  /\ chosen = "p256"
  /\ sess \in [Sessions -> HashTuples]
  /\ initErr = [s \in Sessions |-> ""]
  /\ calls = [s \in Sessions |-> 0]
  /\ updErr = [s \in Sessions |-> ""]
  /\ peer = [s \in Sessions |-> [kind |-> "none", Role |-> 0, from |-> "none", sent |-> 0]]
  /\ last = [s \in Sessions |-> [role |-> 0, rand |-> "none"]]
  /\ got = [s \in Sessions |-> NotRead]

\* HB.Write(...) seven times, then p.K = HB.Sum(nil)
HashStep(s) ==
  /\ calls[s] = 0
  /\ sess' = [sess EXCEPT ![s].K = SessionHash(sess[s])]
  /\ calls' = [calls EXCEPT ![s] = 1]
  /\ UNCHANGED <<chosen, initErr, updErr, peer, last, got>>

NextHash == \E s \in Sessions : HashStep(s)

SpecHash == InitHash /\ [][NextHash]_vars

\* ------------- the affine ed25519 representation (part_006: fromAffine, toAffine)
\* a field element is written in FieldLen bytes (32 in the code)
FieldLen == 2

\* the buffer as it is, not reversed
swapNone(buf) == buf

swapEndianness(buf) == [i \in 1..Len(buf) |-> buf[Len(buf) + 1 - i]]

\* (*big.Int).FillBytes(buf): the big-endian bytes, zero-extended to len(buf)
FillBytes(n, len) == LeftPad(BytesOfNat(n), len)

\* (*field.Element).SetBytes: little-endian, the top bit of the last byte ignored
FieldSetBytes(bs) ==
  LittleEndianMod([bs EXCEPT ![Len(bs)] = @ % 128], EdwardsParams.p)

\* (*field.Element).Bytes(): the little-endian bytes of the reduced value
FieldBytes(v) ==
  LET StepDown[i \in 0..FieldLen] == IF i = 0 THEN v ELSE StepDown[i - 1] \div 256
  IN [i \in 1..FieldLen |-> StepDown[i - 1] % 256]

\* an edwards25519.Point: extended coordinates (X : Y : Z : T)
ExtPoint(X, Y, Z, T) == [X |-> X, Y |-> Y, Z |-> Z, T |-> T]

\* the check of SetExtendedCoordinates: XY = ZT and -X^2 + Y^2 = Z^2 + d*T^2
ExtOnCurve(P) ==
  LET p == EdwardsParams.p
  IN /\ P.Z % p # 0
     /\ (P.X * P.Y) % p = (P.Z * P.T) % p
     /\ (P.Y * P.Y - P.X * P.X) % p = (P.Z * P.Z + EdwardsParams.d * P.T * P.T) % p

\* <<>> is the error
SetExtendedCoordinates(X, Y, Z, T) ==
  IF ExtOnCurve(ExtPoint(X, Y, Z, T)) THEN <<ExtPoint(X, Y, Z, T)>> ELSE <<>>

\* (*Point).Equal: the same point of the projective plane
PointEqual(P, Q) ==
  LET p == EdwardsParams.p
  IN /\ (P.X * Q.Z) % p = (Q.X * P.Z) % p
     /\ (P.Y * Q.Z) % p = (Q.Y * P.Z) % p

fromAffine(x, y) ==
  LET p  == EdwardsParams.p
      X  == FieldSetBytes(swapEndianness(FillBytes(x % p, FieldLen)))
      Y  == FieldSetBytes(swapEndianness(FillBytes(y % p, FieldLen)))
  IN SetExtendedCoordinates(X, Y, 1, (X * Y) % p)

toAffine(point) ==
  LET p    == EdwardsParams.p
      invZ == Inv(point.Z % p, p)
      TX   == (point.X * invZ) % p
      TY   == (point.Y * invZ) % p
  IN <<SetBytes(swapEndianness(FieldBytes(TX))) % p,
       SetBytes(swapEndianness(FieldBytes(TY))) % p>>

\* edwards25519.NewGeneratorPoint()
Generator == ExtPoint(EdBase[1], EdBase[2], 1, (EdBase[1] * EdBase[2]) % EdwardsParams.p)

\* the points the library can hold: every point of the curve, with every Z
LibraryPoints ==
  LET p == EdwardsParams.p
  IN {ExtPoint((x * z) % p, (y * z) % p, z, (x * y * z) % p) :
        x \in {v \in 0..(p - 1) : \E w \in 0..(p - 1) : OnEdwards(v, w)},
        y \in 0..(p - 1), z \in 1..(p - 1)}
       \cap {P \in [X : 0..(p - 1), Y : 0..(p - 1), Z : 1..(p - 1), T : 0..(p - 1)] :
               ExtOnCurve(P)}

\* coordinates handed to fromAffine: in the field and above it
MaxAffine == 14

NoAffine == [kind |-> "none", orig |-> <<>>, point |-> <<>>, affine |-> <<>>]

InitAffine ==
  /\ chosen = "ed25519"
  /\ sess = [s \in Sessions |-> NoAffine]
  /\ initErr = [s \in Sessions |-> "none"]
  /\ calls = [s \in Sessions |-> 0]
  /\ updErr = [s \in Sessions |-> ""]
  /\ peer = [s \in Sessions |-> [kind |-> "none", Role |-> 0, from |-> "none", sent |-> 0]]
  /\ last = [s \in Sessions |-> [role |-> 0, rand |-> "none"]]
  /\ got = [s \in Sessions |-> NotRead]

\* the caller holds a point of the library
DrawPoint ==
  /\ sess["A"].kind = "none"
  /\ \E P \in LibraryPoints :
       sess' = [sess EXCEPT !["A"] = [kind |-> "point", orig |-> P,
                                      point |-> <<P>>, affine |-> <<>>]]
  /\ UNCHANGED <<chosen, initErr, calls, updErr, peer, last, got>>

\* the caller holds a pair of coordinates
DrawAffine ==
  /\ sess["A"].kind = "none"
  /\ \E x \in 0..MaxAffine, y \in 0..MaxAffine :
       sess' = [sess EXCEPT !["A"] = [kind |-> "affine", orig |-> <<x, y>>,
                                      point |-> <<>>, affine |-> <<x, y>>]]
  /\ UNCHANGED <<chosen, initErr, calls, updErr, peer, last, got>>

\* x, y := toAffine(point)
CallToAffine ==
  /\ sess["A"].point # <<>>
  /\ \/ sess["A"].kind = "point" /\ calls["A"] = 0
     \/ sess["A"].kind = "affine" /\ calls["A"] = 1
  /\ sess' = [sess EXCEPT !["A"].affine = toAffine(sess["A"].point[1])]
  /\ calls' = [calls EXCEPT !["A"] = @ + 1]
  /\ UNCHANGED <<chosen, initErr, updErr, peer, last, got>>

\* point, err := fromAffine(x, y)
CallFromAffine ==
  /\ \/ sess["A"].kind = "affine" /\ calls["A"] = 0
     \/ sess["A"].kind = "point" /\ calls["A"] = 1
  /\ sess' = [sess EXCEPT !["A"].point = fromAffine(sess["A"].affine[1], sess["A"].affine[2])]
  /\ calls' = [calls EXCEPT !["A"] = @ + 1]
  /\ UNCHANGED <<chosen, initErr, updErr, peer, last, got>>

NextAffine == DrawPoint \/ DrawAffine \/ CallToAffine \/ CallFromAffine

SpecAffine == InitAffine /\ [][NextAffine]_vars

\* ------------------ the confirmation variant (part_003: Init, Update)
\* the curves InitCurve knows in this variant
ConfirmCurves == {"siec", "p521", "p256", "p384"}

ConfirmPublic == {"Uu", "Uv", "Vu", "Vv", "Xu", "Xv", "Yu", "Yv"}

\* new(Pake) of the variant: the exported fields, then the unexported ones
NewConfirmPake ==
  [Role |-> 0,
   Uu |-> Nil, Uv |-> Nil, Vu |-> Nil, Vv |-> Nil,
   Xu |-> Nil, Xv |-> Nil, Yu |-> Nil, Yv |-> Nil,
   HkA |-> Nil, HkB |-> Nil,
   curve |-> "", pw |-> Nil,
   vpwu |-> Nil, vpwv |-> Nil, upwu |-> Nil, upwv |-> Nil,
   alpha |-> Nil, alphau |-> Nil, alphav |-> Nil,
   zu |-> Nil, zv |-> Nil, k |-> Nil,
   isVerified |-> FALSE]

\* rand1, rand2 and the secret are 8 bytes each
ConfirmAlphaLen == 8

\* curve.Add of a CurveParams curve: the arithmetic is modulo P, so a negated
\* (unreduced) y gives the point it is congruent to; (0, 0) is the point at infinity
GenericAdd(name, A, B) ==
  LET cv == WeierstrassParams(name)
      R  == WAdd(cv, <<Val(A[1]) % cv.p, Val(A[2]) % cv.p>>,
                     <<Val(B[1]) % cv.p, Val(B[2]) % cv.p>>)
  IN Pt(R[1], R[2])

\* the difference taken as a sum, the y of B not negated
ConfirmSum(name, A, B) == GenericAdd(name, A, B)

\* p.curve.Add(A.x, A.y, B.x, new(big.Int).Neg(B.y))
ConfirmDifference(name, A, B) ==
  GenericAdd(name, A, <<B[1], Int1(0 - Val(B[2]))>>)

\* bcrypt.GenerateFromPassword(k, cost): a salted hash that k alone matches
\* (its salt is taken as read; the cost reached within timeToHash does not
\* change what the hash matches)
hashK(k) == [b |-> <<[bcrypt |-> k]>>, err |-> ""]

ErrMismatch == "hashedPassword is not the hash of the given password"

\* the comparison left out: any hash is taken to match
checkKHashAny(hash, k) == ""

\* bcrypt.CompareHashAndPassword(hash, k)
checkKHash(hash, k) ==
  IF ~IsNil(hash) /\ hash[1].bcrypt = k THEN "" ELSE ErrMismatch

\* H(pw, X, Y, z) of the variant: the same bytes in the same order
ConfirmHash(p) ==
  Sum256(HashInput([Pw |-> p.pw, Xu |-> p.Xu, Xv |-> p.Xv, Yu |-> p.Yu,
                    Yv |-> p.Yv, Zu |-> p.zu, Zv |-> p.zv]))

\* a nil *big.Int reaches the curve arithmetic or Bytes()
ConfirmPanics(p, fields) == \E f \in fields : IsNil(p[f])

ErrUValues == "U values not on curve"

ErrVValues == "V values not on curve"

\* Init(pw, role, curve) of the variant (part_003:86-135); r1, r2 and r3 are
\* the reads of rand1, rand2 and the secret
ConfirmInitOf(pw, role, name, r1, r2, r3) ==
  LET p0 == [NewConfirmPake EXCEPT !.curve = name, !.pw = pw]
  IN IF role = 1 THEN [nil |-> FALSE, p |-> [p0 EXCEPT !.Role = 1], err |-> ""]
     ELSE IF ~r1.ok \/ ~r2.ok THEN [nil |-> FALSE, p |-> p0, err |-> ErrRand]
     ELSE LET U  == WeierstrassScalarBaseMult(name, r1.bytes)
              V  == WeierstrassScalarBaseMult(name, r2.bytes)
              p1 == [p0 EXCEPT !.Uu = U[1], !.Uv = U[2], !.Vu = V[1], !.Vv = V[2]]
          IN IF ~WeierstrassIsOnCurve(name, U) THEN [nil |-> FALSE, p |-> p1, err |-> ErrUValues]
             ELSE IF ~WeierstrassIsOnCurve(name, V) THEN [nil |-> FALSE, p |-> p1, err |-> ErrVValues]
             ELSE LET vpw == WeierstrassScalarMult(name, V, pw)
                      upw == WeierstrassScalarMult(name, U, pw)
                      p2  == [p1 EXCEPT !.vpwu = vpw[1], !.vpwv = vpw[2],
                                        !.upwu = upw[1], !.upwv = upw[2],
                                        !.alpha = r3.bytes]
                  IN IF ~r3.ok THEN [nil |-> FALSE, p |-> p2, err |-> ErrRand]
                     ELSE LET AG == WeierstrassScalarBaseMult(name, r3.bytes)
                              X  == GenericAdd(name, upw, AG)
                          IN [nil |-> FALSE,
                              p |-> [p2 EXCEPT !.alphau = AG[1], !.alphav = AG[2],
                                               !.Xu = X[1], !.Xv = X[2]],
                              err |-> ""]

\* InitCurve(pw, role, curve) of the variant (part_003:60-79): p stays nil for
\* a name that is not known
ConfirmInitCurveOf(pw, role, name, r1, r2, r3) ==
  IF name \notin ConfirmCurves
  THEN [nil |-> TRUE, p |-> NewConfirmPake, err |-> ErrNoSuchCurve]
  ELSE ConfirmInitOf(pw, role, name, r1, r2, r3)

\* json.Marshal(p): the exported fields; the hashes are (base64) strings
ConfirmMarshal(p) ==
  [f \in {"Role", "HkA", "HkB"} \cup ConfirmPublic |->
     IF f = "Role" THEN JNum(p.Role)
     ELSE IF f \in ConfirmPublic THEN JBig(p[f])
     ELSE JBytes(p[f])]

\* Bytes() of the variant (part_003:139-142)
ConfirmBytes(p) == Object(ConfirmMarshal(p))

\* json.Unmarshal(qBytes, &q) for var q *Pake of the variant
ConfirmUnmarshal(raw) ==
  IF raw.kind = "text"
  THEN IF raw.text = "null" THEN [err |-> FALSE, isNil |-> TRUE, q |-> NewConfirmPake]
       ELSE [err |-> TRUE, isNil |-> TRUE, q |-> NewConfirmPake]
  ELSE [err |-> FALSE, isNil |-> FALSE,
        q |-> [f \in DOMAIN NewConfirmPake |->
                 IF f \notin DOMAIN raw.doc THEN NewConfirmPake[f]
                 ELSE IF raw.doc[f].t = "null" THEN NewConfirmPake[f]
                 ELSE IF f = "Role" THEN JToInt(raw.doc[f])
                 ELSE IF f \in ConfirmPublic THEN Int1(JToInt(raw.doc[f]))
                 ELSE raw.doc[f].bytes]]

\* the responder's first step (part_003:160-198); the error of rand.Read is dropped
ConfirmRespond(p, q, rnd) ==
  LET name == p.curve
      p1 == [p EXCEPT !.Uu = q.Uu, !.Uv = q.Uv, !.Vu = q.Vu, !.Vv = q.Vv,
                      !.Xu = q.Xu, !.Xv = q.Xv]
      U  == <<p1.Uu, p1.Uv>>
      V  == <<p1.Vu, p1.Vv>>
  IN IF ConfirmPanics(p1, {"Uu", "Uv"}) THEN [p |-> p1, err |-> Panic]
     ELSE IF ~WeierstrassIsOnCurve(name, U) THEN [p |-> p1, err |-> ErrUValues]
     ELSE IF ConfirmPanics(p1, {"Vu", "Vv"}) THEN [p |-> p1, err |-> Panic]
     ELSE IF ~WeierstrassIsOnCurve(name, V) THEN [p |-> p1, err |-> ErrVValues]
     ELSE LET vpw == WeierstrassScalarMult(name, V, p.pw)
              upw == WeierstrassScalarMult(name, U, p.pw)
              AG  == WeierstrassScalarBaseMult(name, rnd.bytes)
              Y   == GenericAdd(name, vpw, AG)
              p2  == [p1 EXCEPT !.vpwu = vpw[1], !.vpwv = vpw[2],
                                !.upwu = upw[1], !.upwv = upw[2],
                                !.alpha = rnd.bytes,
                                !.alphau = AG[1], !.alphav = AG[2],
                                !.Yu = Y[1], !.Yv = Y[2]]
          IN IF ConfirmPanics(p2, {"Xu", "Xv"}) THEN [p |-> p2, err |-> Panic]
             ELSE LET z  == WeierstrassScalarMult(
                              name, ConfirmDifference(name, <<p2.Xu, p2.Xv>>, upw),
                              rnd.bytes)
                      p3 == [p2 EXCEPT !.zu = z[1], !.zv = z[2]]
                      p4 == [p3 EXCEPT !.k = ConfirmHash(p3)]
                      h  == hashK(p4.k)
                  IN [p |-> [p4 EXCEPT !.HkB = h.b], err |-> h.err]

\* the check of the peer's hash of k: p.isVerified is set when it matches
ConfirmVerify(p, hash) ==
  LET err == checkKHash(hash, p.k)
  IN [p |-> [p EXCEPT !.isVerified = IF err = "" THEN TRUE ELSE @], err |-> err]

\* the initiator's step (part_003:208-234): the error of hashK is overwritten
\* by that of checkKHash
ConfirmInitiate(p, q) ==
  LET name == p.curve
      p1 == [p EXCEPT !.HkB = q.HkB, !.Yu = q.Yu, !.Yv = q.Yv]
  IN IF ConfirmPanics(p1, {"Yu", "Yv", "vpwu", "vpwv"}) THEN [p |-> p1, err |-> Panic]
     ELSE LET z  == WeierstrassScalarMult(
                      name,
                      ConfirmDifference(name, <<p1.Yu, p1.Yv>>, <<p1.vpwu, p1.vpwv>>),
                      p1.alpha)
              p2 == [p1 EXCEPT !.zu = z[1], !.zv = z[2]]
          IN IF ConfirmPanics(p2, {"Xu", "Xv"}) THEN [p |-> p2, err |-> Panic]
             ELSE LET p3 == [p2 EXCEPT !.k = ConfirmHash(p2)]
                      h  == hashK(p3.k)
                  IN ConfirmVerify([p3 EXCEPT !.HkA = h.b], p3.HkB)

\* the responder's first step is taken: it has no U and the message has one
ConfirmFirst(p, q) == p.Role = 1 /\ IsNil(p.Uu) /\ ~IsNil(q.Uu)

\* Update(qBytes) of the variant (part_003:147-237)
ConfirmUpdateOf(p, qBytes, rnd) ==
  LET u == ConfirmUnmarshal(qBytes)
      q == u.q
  IN IF u.err THEN [p |-> p, err |-> ErrJSON]
     ELSE IF u.isNil THEN [p |-> p, err |-> Panic]
     ELSE IF p.Role = q.Role THEN [p |-> p, err |-> ErrRole]
     ELSE IF p.Role = 1
          THEN IF ConfirmFirst(p, q) THEN ConfirmRespond(p, q, rnd)
               ELSE IF IsNil(p.HkA) /\ ~IsNil(q.HkA)
                    THEN ConfirmVerify([p EXCEPT !.HkA = q.HkA], q.HkA)
                    ELSE [p |-> p, err |-> ""]
          ELSE IF IsNil(p.HkB) /\ ~IsNil(q.HkB) THEN ConfirmInitiate(p, q)
               ELSE [p |-> p, err |-> ""]

\* IsVerified() (part_003:259-261)
IsVerified(p) == p.isVerified

\* SessionKey() of the variant (part_003:266-272)
ConfirmSessionKey(p) == [key |-> p.k, err |-> IF IsNil(p.k) THEN ErrNoKey ELSE ""]

\* The exchange of the variant (TestSessionKeyString of part_002): A is the
\* initiator and B the responder, and each is given the other's Bytes() as
\* they are at that moment.
InitConfirm ==
  /\ chosen \in ConfirmCurves \cup {"nosuchcurve"}
  /\ sess = [s \in Sessions |-> NewConfirmPake]
  /\ initErr = [s \in Sessions |-> "none"]
  /\ calls = [s \in Sessions |-> 0]
  /\ updErr = [s \in Sessions |-> ""]
  /\ peer = [s \in Sessions |-> [kind |-> "none", Role |-> 0, from |-> "none", sent |-> 0]]
  /\ last = [s \in Sessions |-> [role |-> 0, rand |-> "none"]]
  /\ got = [s \in Sessions |-> NotRead]

ConfirmReads == RandReads(ConfirmAlphaLen)

\* p, err := InitCurve(pw, role, curve) of the variant
ConfirmInit(s, pw, role, r1, r2, r3) ==
  /\ initErr[s] = "none"
  /\ \E r \in {ConfirmInitCurveOf(pw, role, chosen, r1, r2, r3)} :
       /\ sess' = [sess EXCEPT ![s] = r.p]
       /\ initErr' = [initErr EXCEPT ![s] = r.err]
       /\ last' = [last EXCEPT ![s] =
                     [role |-> role,
                      rand |-> IF role = 1 \/ r.nil THEN "none"
                               ELSE IF r.err = ErrRand THEN "failed" ELSE "ok"]]
  /\ UNCHANGED <<chosen, calls, updErr, peer, got>>

\* err := sess[s].Update(qBytes) of the variant, on a session InitCurve
\* returned without error
ConfirmCall(s, qBytes, rnd, from) ==
  /\ initErr[s] = ""
  /\ calls[s] < MaxCalls
  /\ \E r \in {ConfirmUpdateOf(sess[s], qBytes, rnd)} :
       /\ sess' = [sess EXCEPT ![s] = r.p]
       /\ updErr' = [updErr EXCEPT ![s] = r.err]
  /\ peer' = [peer EXCEPT ![s] = [kind |-> WireKind(qBytes),
                                  Role |-> WireRole(qBytes),
                                  from |-> from,
                                  sent |-> calls[Other(s)]]]
  /\ calls' = [calls EXCEPT ![s] = @ + 1]
  /\ last' = [last EXCEPT ![s].rand = ReadOutcome(rnd)]
  /\ got' = [got EXCEPT ![s] = NotRead]
  /\ UNCHANGED <<chosen, initErr>>

\* err := sess[s].Update(sess[Other(s)].Bytes()) of the variant
ConfirmUpdate(s, rnd) ==
  /\ initErr[Other(s)] = ""
  /\ \E qBytes \in {ConfirmBytes(sess[Other(s)])} : ConfirmCall(s, qBytes, rnd, "peer")

\* the responder reads its secret in its first step only
ConfirmUpdateReads(s) ==
  IF ConfirmFirst(sess[s], sess[Other(s)]) THEN ConfirmReads ELSE {NoRead}

NextConfirm ==
  \/ \E pw \in PwSet, r1, r2, r3 \in ConfirmReads : ConfirmInit("A", pw, 0, r1, r2, r3)
  \/ \E pw \in PwSet : ConfirmInit("B", pw, 1, NoRead, NoRead, NoRead)
  \/ \E s \in Sessions : \E rnd \in ConfirmUpdateReads(s) : ConfirmUpdate(s, rnd)

SpecConfirm == InitConfirm /\ [][NextConfirm]_vars

\* One session of the variant against the network: the caller holds a single
\* session of either role and gives it objects made by the network.
\* bcrypt hashes the network can make: of the empty password and of a key
ForgedHashes == {Nil, hashK(Nil).b, hashK(Sum256(<<7>>)).b}

ConfirmForge(role, pt, h) ==
  ConfirmBytes([NewConfirmPake EXCEPT !.Role = role,
                                      !.Uu = pt[1], !.Uv = pt[2],
                                      !.Vu = pt[1], !.Vv = pt[2],
                                      !.Xu = pt[1], !.Xv = pt[2],
                                      !.Yu = pt[1], !.Yv = pt[2],
                                      !.HkA = h, !.HkB = h])

\* the points the network puts in: with a coordinate left out, or on the curve
ConfirmForgedPoints ==
  {pt \in ForgedPoints :
     \/ IsNil(pt[1]) \/ IsNil(pt[2])
     \/ chosen \in ConfirmCurves /\ WeierstrassIsOnCurve(chosen, pt)}

ConfirmForged ==
  {ConfirmForge(role, pt, h) :
     role \in {0, 1}, pt \in ConfirmForgedPoints, h \in ForgedHashes}

\* the call reaches the rand.Read of the responder's first step (part_003:180)
ConfirmReachesRead(p, q) ==
  /\ ~q.err /\ ~q.isNil
  /\ p.Role # q.q.Role
  /\ ConfirmFirst(p, q.q)
  /\ ~IsNil(q.q.Uv) /\ ~IsNil(q.q.Vu) /\ ~IsNil(q.q.Vv)
  /\ WeierstrassIsOnCurve(p.curve, <<q.q.Uu, q.q.Uv>>)
  /\ WeierstrassIsOnCurve(p.curve, <<q.q.Vu, q.q.Vv>>)

ConfirmWireReads(p, qBytes) ==
  IF ConfirmReachesRead(p, ConfirmUnmarshal(qBytes)) THEN ConfirmReads ELSE {NoRead}

NextConfirmWire ==
  \/ \E pw \in PwSet, r1, r2, r3 \in ConfirmReads : ConfirmInit("A", pw, 0, r1, r2, r3)
  \/ \E pw \in PwSet : ConfirmInit("A", pw, 1, NoRead, NoRead, NoRead)
  \/ \E m \in ConfirmForged :
       \E rnd \in ConfirmWireReads(sess["A"], m) : ConfirmCall("A", m, rnd, "network")

SpecConfirmWire == InitConfirm /\ [][NextConfirmWire]_vars

\* The exchange repeated: both sides hold the pw <<1, 2, 3>> and each is given
\* the other's Bytes() up to MaxCalls times; rand.Read gives one of more values.
MaxWideAlpha == 3

WideReads ==
  {[ok |-> TRUE, bytes |-> Zeros(AlphaLen - 1) \o <<a>>] : a \in 0..MaxWideAlpha}
    \cup {[ok |-> FALSE, bytes |-> Zeros(AlphaLen)]}

DeliverWide(s) ==
  /\ initErr[Other(s)] = ""
  /\ \E qBytes \in {Bytes(sess[Other(s)])} :
       \E rnd \in (IF ReachesRead(sess[s], Unmarshal(qBytes)) THEN WideReads ELSE {NoRead}) :
         Update(s, qBytes, rnd, "peer")

NextRepeat ==
  \/ \E rnd \in WideReads : InitCurve("A", <<1, 2, 3>>, 0, chosen, rnd)
  \/ InitCurve("B", <<1, 2, 3>>, 1, chosen, NoRead)
  \/ \E s \in Sessions : DeliverWide(s)

SpecRepeat == Init /\ [][NextRepeat]_vars

\* A session kept in use: one session of either role, of the current code or of
\* the confirmation variant, is given objects made by the network and asked for
\* its key once between the Update calls.
IsCurrent == "K" \in DOMAIN sess["A"]

\* key, err := sess[s].SessionKey() of the variant
ConfirmReadKey(s) ==
  /\ initErr[s] = ""
  /\ got[s].n < MaxReads
  /\ \E r \in {ConfirmSessionKey(sess[s])} :
       got' = [got EXCEPT ![s] = [n |-> @.n + 1, key |-> r.key, err |-> r.err]]
  /\ UNCHANGED <<chosen, sess, initErr, calls, updErr, peer, last>>

InitKept == Init \/ InitConfirm

NextKept ==
  \/ IsCurrent /\ NextFields
  \/ IsCurrent /\ got["A"].n = 0 /\ ReadKey("A")
  \/ ~IsCurrent /\ NextConfirmWire
  \/ ~IsCurrent /\ got["A"].n = 0 /\ ConfirmReadKey("A")

SpecKept == InitKept /\ [][NextKept]_vars

\* ------------------------------------------------------------ properties
\* A's Bytes() was given to B once, and then B's Bytes() to A once
InOrder ==
  /\ calls["A"] = 1 /\ calls["B"] = 1
  /\ peer["B"].from = "peer" /\ peer["B"].sent = 0
  /\ peer["A"].from = "peer" /\ peer["A"].sent = 1

SamePw == sess["A"].Pw = sess["B"].Pw

\* the length in bytes of a session key
KeyLen(k) == k[1].len

\* on the curves of crypto/elliptic and on siec, (0, 0) stands for the point at infinity
AtInfinity(u, v) == ~IsEdwards(chosen) /\ <<u, v>> = Pt(0, 0)

\* the initiator's X or the responder's Y is the point at infinity
ExchangeAtInfinity ==
  \/ AtInfinity(sess["A"].Xu, sess["A"].Xv)
  \/ AtInfinity(sess["B"].Yu, sess["B"].Yv)

BothKeys ==
  /\ SessionKey(sess["A"]).err = ""
  /\ SessionKey(sess["B"]).err = ""

EqualKeys == SessionKey(sess["A"]).key = SessionKey(sess["B"]).key

AgreedKeys ==
  /\ BothKeys
  /\ EqualKeys
  /\ KeyLen(SessionKey(sess["A"]).key) = DigestLen
  /\ KeyLen(SessionKey(sess["B"]).key) = DigestLen

AfterTwo == calls["A"] = 1 /\ calls["B"] = 1

\* both Update calls returned without error
Processed == updErr["A"] = "" /\ updErr["B"] = ""

\* B holds the X that A sent and A holds the Y that B sent
TranscriptIntact ==
  /\ sess["B"].Xu = sess["A"].Xu /\ sess["B"].Xv = sess["A"].Xv
  /\ sess["A"].Yu = sess["B"].Yu /\ sess["A"].Yv = sess["B"].Yv

\* C3: after two messages the two sessions hold equal K exactly when the weak
\* keys match and each side has processed the point the other side sent; so when
\* another point of the curve was delivered in place of X or of Y and both sides
\* derived a key, the keys differ.
TranscriptIntegrity ==
  AfterTwo =>
    ((BothKeys /\ EqualKeys) <=> (SamePw /\ Processed /\ TranscriptIntact))

Updated(s) == calls'[s] = calls[s] + 1

\* the peer bytes of the last Update call on s were an object of the other role
FromOtherRole(s) == peer[s].kind = "object" /\ peer[s].Role # sess[s].Role

\* C5: an Update call given a message that carries the session's own Role
\* returns the error of the role check, for either role and any points.
RoleExclusion ==
  \A s \in Sessions :
    (calls[s] > 0 /\ peer[s].kind = "object" /\ peer[s].Role = sess[s].Role)
      => updErr[s] = ErrRole

RoleExclusionReached ==
  /\ calls["A"] > 0 /\ sess["A"].Role = 1
  /\ peer["A"].kind = "object" /\ peer["A"].Role = 1 /\ peer["A"].from = "network"
  /\ updErr["A"] = ErrRole

PublicFields == {"Role", "Uu", "Uv", "Vu", "Vv", "Xu", "Xv", "Yu", "Yv"}

PrivateFields ==
  {"Pw", "Aalpha", "Aalphau", "Aalphav", "Upwu", "Upwv", "Vpwu", "Vpwv", "Zu", "Zv", "K"}

\* C6: in every state the message Bytes() gives for a session has no value for
\* pw, alpha, alpha*G, Upw, Vpw, Z or K; only Role, U, V, X and Y have values.
CodecPrivacy ==
  \A s \in Sessions :
    /\ \A f \in PrivateFields : Bytes(sess[s]).doc[f] = JNull
    /\ \A f \in DOMAIN Bytes(sess[s]).doc :
         Bytes(sess[s]).doc[f] # JNull => f \in PublicFields

CodecPrivacyReached ==
  \E s \in Sessions :
    /\ HaveSessionKey(sess[s])
    /\ sess[s].Pw # <<>> /\ ~IsNil(sess[s].Aalpha) /\ ~IsNil(sess[s].Zu)
    /\ Bytes(sess[s]).doc["K"] = JNull /\ Bytes(sess[s]).doc["Pw"] = JNull
    /\ Bytes(sess[s]).doc["Xu"] # JNull /\ Bytes(sess[s]).doc["Yu"] # JNull

\* the point a session has copied from the last message: X for a responder,
\* Y for an initiator
Received(p) == IF p.Role = 1 THEN <<p.Xu, p.Xv>> ELSE <<p.Yu, p.Yv>>

\* the point has both coordinates and does not satisfy the equation of the curve
OffCurve(curve, P) ==
  /\ ~IsNil(P[1]) /\ ~IsNil(P[2])
  /\ IF IsEdwards(curve) THEN EdPoint(P) = <<>>
     ELSE ~OnWeierstrass(WeierstrassParams(curve), Val(P[1]), Val(P[2]))

ErrNotOnCurve(p) == IF p.Role = 1 THEN ErrXNotOnCurve ELSE ErrYNotOnCurve

\* C7: an Update call given a message of the other role whose X (for a
\* responder) or Y (for an initiator) is not on the curve returns the error of
\* the curve check and leaves Z, K, HaveSessionKey() and SessionKey() as before.
PointValidation ==
  [][(/\ Updated("A")
      /\ FromOtherRole("A")'
      /\ OffCurve(chosen, Received(sess'["A"])))
     => /\ updErr'["A"] = ErrNotOnCurve(sess["A"])
        /\ sess'["A"].Zu = sess["A"].Zu /\ sess'["A"].Zv = sess["A"].Zv
        /\ HaveSessionKey(sess'["A"]) = HaveSessionKey(sess["A"])
        /\ SessionKey(sess'["A"]).key = SessionKey(sess["A"]).key
        /\ SessionKey(sess'["A"]).err = SessionKey(sess["A"]).err]_vars

\* a responder that holds a key was given an X off the curve
PointValidationReached ==
  /\ calls["A"] = 2 /\ sess["A"].Role = 1
  /\ FromOtherRole("A")
  /\ OffCurve(chosen, Received(sess["A"]))
  /\ updErr["A"] = ErrXNotOnCurve
  /\ HaveSessionKey(sess["A"])

\* C8: an Update call on a session that has already derived K returns success
\* and leaves K as it was.
FirstWins ==
  [][\A s \in Sessions :
       (Updated(s) /\ HaveSessionKey(sess[s]) /\ peer'[s].from = "peer")
         => (updErr'[s] = "" /\ sess'[s].K = sess[s].K)]_vars

\* C9: an Update call given a message of the other role without the point the
\* session needs returns success and leaves K as it was.
OmittedPointIsNoOp ==
  [][(/\ Updated("A")
      /\ FromOtherRole("A")'
      /\ Received(sess'["A"]) = NilPoint)
     => (updErr'["A"] = "" /\ sess'["A"].K = sess["A"].K)]_vars

\* C10: an Update call given bytes that do not decode returns an error, does
\* not crash, and leaves a session without K without K.
BadWireBytes ==
  [][(Updated("A") /\ peer'["A"].kind = "garbage")
     => /\ updErr'["A"] \notin {"", Panic}
        /\ (~HaveSessionKey(sess["A"]) => ~HaveSessionKey(sess'["A"]))]_vars

BadWireBytesReached ==
  /\ calls["A"] > 0
  /\ peer["A"].kind = "garbage"
  /\ updErr["A"] = ErrJSON
  /\ ~HaveSessionKey(sess["A"])

\* C11: a session holds no key before its first Update (HaveSessionKey() is
\* false and SessionKey() returns an error, for either role), SessionKey()
\* returns an error exactly when HaveSessionKey() is false, and a session comes
\* to hold a key only in an Update call on it that returns no error.
KeyOnlyAfterUpdate ==
  /\ [](\A s \in Sessions :
          /\ calls[s] = 0 => ~HaveSessionKey(sess[s])
          /\ (SessionKey(sess[s]).err # "") <=> ~HaveSessionKey(sess[s]))
  /\ [][\A s \in Sessions :
          (~HaveSessionKey(sess[s]) /\ HaveSessionKey(sess'[s]))
            => (Updated(s) /\ updErr'[s] = "")]_vars

\* a session whose Update failed holds no key, and one whose Update succeeded does
KeyOnlyAfterUpdateReached ==
  /\ initErr["A"] = "" /\ calls["A"] = 1
  /\ updErr["A"] = ErrXNotOnCurve
  /\ ~HaveSessionKey(sess["A"])

\* C12: when the rand.Read of a call fails, the call returns an error: InitCurve
\* leaves the initiator without X and K, and a responder's Update does not
\* complete with the unfilled scalar.
RandomSourceFailed ==
  \A s \in Sessions :
    last[s].rand = "failed" =>
      IF calls[s] = 0
      THEN initErr[s] # "" /\ IsNil(sess[s].Xu) /\ ~HaveSessionKey(sess[s])
      ELSE updErr[s] # ""

\* InitCurve made its call on the names of AvailableCurves only
Listed == chosen \in CurveNames

\* C13 as stated: InitCurve returns no error for every name of AvailableCurves
\* (any pw, any role) and an error for every other name.
CurveNameDecides ==
  \A s \in Sessions : initErr[s] # "none" => (initErr[s] = "" <=> Listed)

\* C13, amended: InitCurve returns no error for every name of AvailableCurves
\* (any pw, any role) unless the rand.Read of an initiator fails, and the error
\* "no such curve" for every other name.
CurveNameDecidesUnlessRandFails ==
  \A s \in Sessions :
    initErr[s] # "none" =>
      /\ initErr[s] = "" <=> (Listed /\ last[s].rand # "failed")
      /\ ~Listed <=> initErr[s] = ErrNoSuchCurve

\* InitCurve succeeded on a pw longer than a scalar, for both roles
CurveNameDecidesReached ==
  /\ initErr["A"] = "" /\ sess["A"].Pw = LongPw /\ sess["A"].Role = 0
  /\ initErr["B"] = "" /\ sess["B"].Pw = <<>> /\ sess["B"].Role = 1

RoleOf(role) == IF role = 1 THEN 1 ELSE 0

\* C17 as stated: on a listed curve InitCurve returns no error whatever the
\* role, and the session is a responder (Role = 1) for role 1 and an initiator
\* (Role = 0) for every other role.
RoleAccepted ==
  \A s \in Sessions :
    (initErr[s] # "none" /\ Listed) =>
      initErr[s] = "" /\ sess[s].Role = RoleOf(last[s].role)

\* C17, amended: on a listed curve InitCurve rejects no role: it returns an
\* error only when the rand.Read of a role other than 1 fails, and in every
\* case the session is a responder (Role = 1) for role 1 and an initiator
\* (Role = 0) for every other role.
RoleNormalised ==
  \A s \in Sessions :
    (initErr[s] # "none" /\ Listed) =>
      /\ sess[s].Role = RoleOf(last[s].role)
      /\ initErr[s] \in {"", ErrRand}
      /\ initErr[s] = ErrRand <=> (last[s].role # 1 /\ last[s].rand = "failed")

\* roles 999 and -1 made initiators
RoleNormalisedReached ==
  /\ initErr["A"] = "" /\ last["A"].role = 999 /\ sess["A"].Role = 0
  /\ initErr["B"] = "" /\ last["B"].role = -1 /\ sess["B"].Role = 0

\* the pairs of this run, initiator first
Pairs == {pr \in {<<"A", "B">>, <<"C", "D">>} : pr[1] \in DOMAIN sess}

\* b was given a's Bytes() once, and then a was given b's Bytes() once
PairInOrder(a, b) ==
  /\ calls[a] = 1 /\ calls[b] = 1
  /\ peer[b].from = "peer" /\ peer[b].sent = 0
  /\ peer[a].from = "peer" /\ peer[a].sent = 1

PairAtInfinity(a, b) ==
  \/ AtInfinity(sess[a].Xu, sess[a].Xv)
  \/ AtInfinity(sess[b].Yu, sess[b].Yv)

PairBothKeys(a, b) == SessionKey(sess[a]).err = "" /\ SessionKey(sess[b]).err = ""

PairEqualKeys(a, b) == SessionKey(sess[a]).key = SessionKey(sess[b]).key

\* a pair with equal pw holds equal keys, a pair with different pw different keys
PairOutcome(a, b) ==
  /\ PairBothKeys(a, b)
  /\ PairEqualKeys(a, b) <=> sess[a].Pw = sess[b].Pw

\* the step is a call on session s
CallOn(s) == initErr'[s] # initErr[s] \/ calls'[s] # calls[s]

\* nothing the caller holds for session t changes
Untouched(t) ==
  /\ sess'[t] = sess[t] /\ initErr'[t] = initErr[t] /\ calls'[t] = calls[t]
  /\ updErr'[t] = updErr[t]

\* no call on one session changes another session
NoInterference ==
  \A s \in DOMAIN sess : CallOn(s) => \A t \in DOMAIN sess \ {s} : Untouched(t)

ReadStep(s) == got'[s].n = got[s].n + 1

\* C16: a SessionKey() call leaves the session as it was, and when it follows
\* another SessionKey() call with no Update in between it returns the same key
\* bytes and the same error status.
SessionKeyIdempotent ==
  [][\A s \in Sessions :
      ReadStep(s) =>
        /\ sess'[s] = sess[s]
        /\ got[s].n > 0 => (got'[s].key = got[s].key /\ got'[s].err = got[s].err)]_vars

\* SessionKey() called twice on a session with a key
SessionKeyIdempotentReached ==
  /\ HaveSessionKey(sess["A"])
  /\ got["A"].n = 2 /\ got["A"].err = "" /\ got["A"].key = sess["A"].K

\* the sessions the caller holds
Held == {s \in Sessions : initErr[s] = ""}

\* C18: decoding the Bytes() of a session gives a Pake that holds exactly the
\* session's Role, U, V, X and Y (nil where the session's is nil) and nothing
\* else, and two sessions whose public views differ give different Bytes().
CodecRoundTrip ==
  /\ \A s \in Held :
       /\ ~Unmarshal(Bytes(sess[s])).err
       /\ ~Unmarshal(Bytes(sess[s])).isNil
       /\ Unmarshal(Bytes(sess[s])).q = Public(sess[s])
  /\ \A s, t \in Held :
       Public(sess[s]) # Public(sess[t]) => Bytes(sess[s]) # Bytes(sess[t])

\* the responder holds X and Y and the initiator holds X and no Y yet
CodecRoundTripReached ==
  /\ Held = Sessions
  /\ calls["B"] = 1 /\ updErr["B"] = ""
  /\ ~IsNil(sess["B"].Xu) /\ ~IsNil(sess["B"].Yu)
  /\ ~IsNil(sess["A"].Xu) /\ IsNil(sess["A"].Yu)

\* the pointer the caller holds as s
Holds(s) == IF initErr[s] = "none" THEN NilRef ELSE Ref(sess[s])

\* C19: on a nil session HaveSessionKey() is false, and Update returns the
\* error "pake is not initialized" - it does not panic - and changes nothing.
NilSession ==
  /\ [](\A s \in Sessions : Holds(s).nil => ~PakeHaveSessionKey(Holds(s)))
  /\ [][\A s \in Sessions :
          (Holds(s).nil /\ Updated(s)) =>
            /\ updErr'[s] = ErrNotInitialized
            /\ sess'[s] = sess[s] /\ initErr'[s] = initErr[s]]_vars

\* Update was called on the nil session with bytes that are no JSON
NilSessionReached ==
  /\ Holds("A").nil /\ calls["A"] = 1
  /\ peer["A"].kind = "garbage"
  /\ updErr["A"] = ErrNotInitialized

\* the three messages in order: B was given A's Bytes(), then A was given B's,
\* then B was given A's again
InOrderThree ==
  /\ calls["A"] = 1 /\ calls["B"] = 2
  /\ peer["A"].sent = 1 /\ peer["B"].sent = 1

\* both sessions of the variant hold a key, and the keys are equal
ConfirmEqualKeys ==
  /\ ConfirmSessionKey(sess["A"]).err = ""
  /\ ConfirmSessionKey(sess["B"]).err = ""
  /\ ConfirmSessionKey(sess["A"]).key = ConfirmSessionKey(sess["B"]).key

\* C20: in the confirmation variant, with equal pw, after B.Update(A.Bytes()),
\* A.Update(B.Bytes()) and B.Update(A.Bytes()) both sessions report
\* IsVerified() = true and hold equal session keys.
ConfirmedKeys ==
  (InOrderThree /\ sess["A"].pw = sess["B"].pw) =>
    /\ IsVerified(sess["A"]) /\ IsVerified(sess["B"])
    /\ ConfirmEqualKeys

\* the exchange made with equal pw and secrets that are not zero
ConfirmedKeysReached ==
  /\ InOrderThree
  /\ sess["A"].pw = sess["B"].pw /\ sess["A"].pw # <<>>
  /\ <<sess["A"].zu, sess["A"].zv>> # Pt(0, 0)
  /\ IsVerified(sess["A"]) /\ IsVerified(sess["B"])
  /\ ConfirmEqualKeys

\* the Update call on s checks the peer's hash of k: the initiator takes HkB
\* from the message, the responder HkA
ChecksHash(s) ==
  /\ Updated(s)
  /\ IF sess[s].Role = 1
     THEN IsNil(sess[s].HkA) /\ ~IsNil(sess'[s].HkA)
     ELSE IsNil(sess[s].HkB) /\ ~IsNil(sess'[s].HkB)

ConfirmDifferentPw == sess["A"].pw # sess["B"].pw

\* C21: in the confirmation variant, when the two sides hold different pw, the
\* Update call that checks the peer's hash of k returns an error and
\* IsVerified() is false after it.
ConfirmationFails ==
  [][\A s \in Sessions :
       (ChecksHash(s) /\ ConfirmDifferentPw)
         => /\ updErr'[s] \notin {"", Panic}
            /\ ~IsVerified(sess'[s])]_vars

\* the three messages with different pw: both checks have failed
ConfirmationFailsReached ==
  /\ InOrderThree /\ ConfirmDifferentPw
  /\ ~IsNil(sess["A"].HkB) /\ ~IsNil(sess["B"].HkA)
  /\ updErr["A"] = ErrMismatch /\ updErr["B"] = ErrMismatch
  /\ ~IsVerified(sess["A"]) /\ ~IsVerified(sess["B"])

\* the hash of k a session has taken from its peer: HkA for a responder, HkB
\* for an initiator
PeerHash(p) == IF p.Role = 1 THEN p.HkA ELSE p.HkB

\* C22: in the confirmation variant IsVerified() is false after Init, and it is
\* true only on a session that holds k and whose peer's hash matches that k.
VerifiedOnlyWithKey ==
  \A s \in Sessions :
    /\ (initErr[s] \in {"none", ""} /\ calls[s] = 0) => ~IsVerified(sess[s])
    /\ IsVerified(sess[s]) =>
         /\ ConfirmSessionKey(sess[s]).err = ""
         /\ checkKHash(PeerHash(sess[s]), sess[s].k) = ""

\* the point is held whole and is neither on the curve nor the point at infinity
HeldOffCurve(P) == OffCurve(chosen, P) /\ ~AtInfinity(P[1], P[2])

\* C23: each of X and Y that a session holds lies on the session's curve, also
\* after an Update call that returned an error.
AcceptedOnCurve ==
  \A s \in Held :
    /\ ~HeldOffCurve(<<sess[s].Xu, sess[s].Xv>>)
    /\ ~HeldOffCurve(<<sess[s].Yu, sess[s].Yv>>)

\* Role, U, V, pw and the curve of s are left as they were
KeepsIdentity(s) ==
  /\ sess'[s].Role = sess[s].Role
  /\ sess'[s].Uu = sess[s].Uu /\ sess'[s].Uv = sess[s].Uv
  /\ sess'[s].Vu = sess[s].Vu /\ sess'[s].Vv = sess[s].Vv
  /\ sess'[s].Pw = sess[s].Pw
  /\ sess'[s].curve = sess[s].curve /\ sess'[s].P = sess[s].P

RegistryGenerators(p) ==
  /\ <<p.Uu, p.Uv>> = RegistryU(chosen)
  /\ <<p.Vu, p.Vv>> = RegistryV(chosen)

\* the call on s ended as it ends when given the object that carries nothing
\* but the Role and the point of the message
AsGivenRoleAndPoint(s) ==
  \E m \in {Forge(peer'[s].Role, Received(sess'[s]))} :
    \E rnd \in UpdateReads(sess[s], m) :
      \E r \in {PakeUpdate(Ref(sess[s]), m, rnd)} :
        r.p = sess'[s] /\ r.err = updErr'[s]

\* C24: an Update call leaves Role, U, V, pw and the curve of the session as
\* they were, U and V being the generators of the registry, and it ends as it
\* would when given only the Role and the X (responder) or Y (initiator) of
\* the message, whatever U, V and private-named members the message carries.
UpdateFrame ==
  [][Updated("A") =>
       /\ KeepsIdentity("A")
       /\ RegistryGenerators(sess'["A"])
       /\ AsGivenRoleAndPoint("A")]_vars

\* a responder has derived K from a message that carries another U and V
UpdateFrameReached ==
  /\ sess["A"].Role = 1 /\ calls["A"] = 1
  /\ peer["A"].from = "generators"
  /\ updErr["A"] = "" /\ HaveSessionKey(sess["A"])
  /\ RegistryGenerators(sess["A"])

\* C25: an Update call that fails because the peer bytes do not decode, or
\* because the peer's role is the session's own, changes no field of the
\* session: X, Y, alpha, Z, K and the output of Bytes() are as before.
FailedUpdateIsNoOp ==
  [][(Updated("A") /\ updErr'["A"] \in {ErrJSON, ErrRole})
     => /\ sess'["A"] = sess["A"]
        /\ Bytes(sess'["A"]) = Bytes(sess["A"])]_vars

\* a session that holds K was given an object of its own role by the network
FailedUpdateIsNoOpReached ==
  /\ calls["A"] = 2 /\ updErr["A"] = ErrRole
  /\ peer["A"].from = "network" /\ peer["A"].Role = sess["A"].Role
  /\ HaveSessionKey(sess["A"])

\* the session returns a key: HaveSessionKey() in the current code, SessionKey()
\* without error in the variant
HoldsKey(s) ==
  IF IsCurrent THEN HaveSessionKey(sess[s]) /\ SessionKey(sess[s]).err = ""
  ELSE ConfirmSessionKey(sess[s]).err = ""

\* C26: once a session holds K it holds a K after every further Update call,
\* successful or failing, and every SessionKey call; in the confirmation
\* variant a failed or missing confirmation does not take K away.
KeyKept ==
  [][\A s \in Sessions : HoldsKey(s) => HoldsKey(s)']_vars

\* a session that held K was given a second message the call on which failed,
\* and was asked for its key after that
KeyKeptReached ==
  /\ IsCurrent
  /\ calls["A"] = 2 /\ updErr["A"] # ""
  /\ got["A"].n = 1 /\ got["A"].err = ""
  /\ HoldsKey("A")

\* the Update call on A is given the bytes its last Update call was given:
\* B's Bytes() again, B having made no Update call in between
SameMessageAgain ==
  /\ Updated("A") /\ calls["A"] > 0
  /\ peer["A"].from = "peer" /\ peer'["A"] = peer["A"]

\* C27: an initiator given the same valid responder message a second time
\* holds the same X, Y, Z and K as after the first time, and the call succeeds.
InitiatorIdempotent ==
  [][(/\ SameMessageAgain
      /\ sess["A"].Role = 0
      /\ peer["A"].sent > 0 /\ updErr["A"] = "")
     => (updErr'["A"] = "" /\ sess'["A"] = sess["A"])]_vars

\* the initiator was given the responder's message twice
InitiatorIdempotentReached ==
  /\ calls["A"] = 2 /\ calls["B"] = 1
  /\ peer["A"].from = "peer" /\ peer["A"].sent = 1
  /\ updErr["A"] = "" /\ HaveSessionKey(sess["A"])
  /\ ~AtInfinity(sess["A"].Zu, sess["A"].Zv)

\* C28: when the only messages are the Bytes() of the two sessions, the
\* initiator holds K only if the responder holds K already: the initiator does
\* not derive K from a message the responder made before its own Update.
ResponderFirst ==
  /\ [](HaveSessionKey(sess["A"]) => HaveSessionKey(sess["B"]))
  /\ [][(Updated("A") /\ peer'["A"].sent = 0) => ~HaveSessionKey(sess'["A"])]_vars

\* the initiator was given the responder's Bytes() before and after the
\* responder's Update, and holds K after the second
ResponderFirstReached ==
  /\ calls["A"] = 2 /\ calls["B"] = 1
  /\ peer["A"].sent = 1
  /\ HaveSessionKey(sess["A"]) /\ HaveSessionKey(sess["B"])

HoldsNoPoint(P) == IsNil(P[1]) /\ IsNil(P[2])

\* pw * B + alpha * G for the pw and alpha of the session
Blinded(p, B) ==
  Add(p.curve, ScalarMult(p.curve, B, p.Pw), ScalarBaseMult(p.curve, p.Aalpha))

\* X and Y of the initiator A after InitCurve, X being accepted by onCurve
InitiatorPhase(onCurve(_)) ==
  initErr["A"] = "" =>
    /\ calls["A"] = 0 =>
         /\ onCurve(<<sess["A"].Xu, sess["A"].Xv>>)
         /\ HoldsNoPoint(<<sess["A"].Yu, sess["A"].Yv>>)
    /\ <<sess["A"].Xu, sess["A"].Xv>> = Blinded(sess["A"], <<sess["A"].Uu, sess["A"].Uv>>)

\* X and Y of the responder B: none after InitCurve; after a successful Update
\* the X of A, its own Y, and both in its Bytes()
ResponderPhase ==
  initErr["B"] = "" =>
    /\ calls["B"] = 0 =>
         /\ HoldsNoPoint(<<sess["B"].Xu, sess["B"].Xv>>)
         /\ HoldsNoPoint(<<sess["B"].Yu, sess["B"].Yv>>)
    /\ (calls["B"] > 0 /\ updErr["B"] = "") =>
         /\ <<sess["B"].Xu, sess["B"].Xv>> = <<sess["A"].Xu, sess["A"].Xv>>
         /\ <<sess["B"].Yu, sess["B"].Yv>> = Blinded(sess["B"], <<sess["B"].Vu, sess["B"].Vv>>)
         /\ Bytes(sess["B"]).doc["Xu"] = JNum(Val(sess["B"].Xu))
         /\ Bytes(sess["B"]).doc["Xv"] = JNum(Val(sess["B"].Xv))
         /\ Bytes(sess["B"]).doc["Yu"] = JNum(Val(sess["B"].Yu))
         /\ Bytes(sess["B"]).doc["Yv"] = JNum(Val(sess["B"].Yv))

OnCurveStrictly(P) == ~IsOnCurvePanics(chosen, P) /\ IsOnCurve(chosen, P)

OnCurveOrInfinity(P) == OnCurveStrictly(P) \/ AtInfinity(P[1], P[2])

KeyInput(p) ==
  p.Pw \o BytesOfNat(Val(p.Xu)) \o BytesOfNat(Val(p.Xv))
       \o BytesOfNat(Val(p.Yu)) \o BytesOfNat(Val(p.Yv))
       \o BytesOfNat(Val(p.Zu)) \o BytesOfNat(Val(p.Zv))

SameKeyInputs(p, q) ==
  /\ p.Pw = q.Pw
  /\ <<p.Xu, p.Xv, p.Yu, p.Yv>> = <<q.Xu, q.Xv, q.Yu, q.Yv>>
  /\ <<p.Zu, p.Zv>> = <<q.Zu, q.Zv>>

\* C30: an Update call that succeeds leaves K = SHA256(pw, X.x, X.y, Y.x, Y.y,
\* Z.x, Z.y) of the session's fields, for either role, X being the initiator's
\* point and Y the responder's; and two sessions that hold equal pw, X, Y and
\* Z hold equal K. The second part fails once an Update has stored a point it
\* rejects (pake.go:323-329): the session then holds a Y that its K was not
\* derived from.
KeyDerivation ==
  /\ [][\A s \in Sessions :
          (Updated(s) /\ updErr'[s] = "")
            => sess'[s].K = Sum256(KeyInput(sess'[s]))]_vars
  /\ []((/\ HaveSessionKey(sess["A"]) /\ HaveSessionKey(sess["B"])
         /\ SameKeyInputs(sess["A"], sess["B"]))
        => sess["A"].K = sess["B"].K)

\* the initiator and the responder hold the same pw, X, Y and Z, off the point
\* at infinity, and the same K
KeyDerivationReached ==
  /\ sess["A"].Role = 0 /\ sess["B"].Role = 1
  /\ HaveSessionKey(sess["A"]) /\ HaveSessionKey(sess["B"])
  /\ SameKeyInputs(sess["A"], sess["B"])
  /\ ~AtInfinity(sess["A"].Zu, sess["A"].Zv)
  /\ sess["A"].K = sess["B"].K

\* the scalar a curve reads from the bytes k
ScalarOf(curve, k) ==
  IF IsEdwards(curve) THEN SetBytesWithClamping(normalizeScalar(k))
  ELSE BigEndianMod(k, WeierstrassParams(curve).n)

\* m * G in the group of the curve, as the curve returns a point
BaseMultiple(curve, m) ==
  IF IsEdwards(curve)
  THEN ed25519PointToBigInts(EdEncode(EMul(m % EdwardsParams.l, EdBase)))
  ELSE LET cv == WeierstrassParams(curve)
           R  == WMul(cv, m % cv.n, <<cv.gx, cv.gy>>)
       IN Pt(R[1], R[2])

\* A - B in the group of the curve
GroupDifference(curve, A, B) ==
  IF IsEdwards(curve)
  THEN ed25519PointToBigInts(EdEncode(EAdd(EdPoint(A)[1], ENeg(EdPoint(B)[1]))))
  ELSE LET cv == WeierstrassParams(curve)
           nB == IF Raw(B) = Infinity THEN Infinity
                 ELSE <<Val(B[1]), (cv.p - Val(B[2])) % cv.p>>
           R  == WAdd(cv, Raw(A), nB)
       IN Pt(R[1], R[2])

\* alpha * (X - pw*U) for a responder, alpha * (Y - pw*V) for an initiator
SharedOf(p) ==
  ScalarMult(p.curve,
             IF p.Role = 1
             THEN GroupDifference(p.curve, <<p.Xu, p.Xv>>,
                                  ScalarMult(p.curve, <<p.Uu, p.Uv>>, p.Pw))
             ELSE GroupDifference(p.curve, <<p.Yu, p.Yv>>,
                                  ScalarMult(p.curve, <<p.Vu, p.Vv>>, p.Pw)),
             p.Aalpha)

\* C31: an Update call that succeeds leaves Z = alpha * (X - pw*U) in a
\* responder and Z = alpha * (Y - pw*V) in an initiator, the difference being
\* that of the curve's group on ed25519 and on the other curves alike; after
\* the exchange in order with the same pw, both hold Z = alphaA * alphaB * G.
SharedPoint ==
  /\ [][\A s \in Sessions :
          (Updated(s) /\ updErr'[s] = "")
            => <<sess'[s].Zu, sess'[s].Zv>> = SharedOf(sess'[s])]_vars
  /\ []((InOrder /\ SamePw /\ updErr["A"] = "" /\ updErr["B"] = "")
        => /\ <<sess["A"].Zu, sess["A"].Zv>> = <<sess["B"].Zu, sess["B"].Zv>>
           /\ <<sess["A"].Zu, sess["A"].Zv>>
                = BaseMultiple(chosen, ScalarOf(chosen, sess["A"].Aalpha)
                                         * ScalarOf(chosen, sess["B"].Aalpha)))

\* both sides hold the same Z on ed25519, and it is not the neutral element
SharedPointReached ==
  /\ InOrder /\ SamePw /\ updErr["A"] = "" /\ updErr["B"] = ""
  /\ IsEdwards(chosen)
  /\ sess["A"].Pw # <<>>
  /\ <<sess["A"].Zu, sess["A"].Zv>> = <<sess["B"].Zu, sess["B"].Zv>>
  /\ <<sess["A"].Zu, sess["A"].Zv>> # BaseMultiple(chosen, 0)

\* the mask of a session: pw*U for a responder, pw*V for an initiator
Mask(p) == IF p.Role = 1 THEN <<p.Upwu, p.Upwv>> ELSE <<p.Vpwu, p.Vpwv>>

\* the y-coordinate v handed to Add with the mask (pake.go:305-307, 337-339)
NegatedMaskY(p) == Negate(Mask(p)[2], p.P)

\* C32: on a curve other than ed25519, the y handed to Add for the negated
\* mask in a successful Update is in 0..p-1 for the field prime p of the curve
\* and is (-y) mod p of the mask's y.
ReducedNegation ==
  [][\A s \in Sessions :
       (Updated(s) /\ updErr'[s] = "" /\ ~IsEdwards(chosen))
         => /\ Val(NegatedMaskY(sess'[s])) \in 0..(FieldPrime(chosen) - 1)
            /\ (Val(NegatedMaskY(sess'[s])) + Val(Mask(sess'[s])[2]))
                 % FieldPrime(chosen) = 0]_vars

\* both sides have negated a mask whose y is not 0
ReducedNegationReached ==
  /\ ~IsEdwards(chosen)
  /\ InOrder /\ updErr["A"] = "" /\ updErr["B"] = ""
  /\ \A s \in Sessions :
       /\ Val(Mask(sess[s])[2]) # 0
       /\ Val(NegatedMaskY(sess[s])) = FieldPrime(chosen) - Val(Mask(sess[s])[2])

\* the secret scalar of a session, of the current code or of the variant
AlphaOf(p) == IF "Aalpha" \in DOMAIN p THEN p.Aalpha ELSE p.alpha

\* the step is an InitCurve or an Update call on s that made the buffer of the
\* secret scalar and called rand.Read on it
Sampled(s) ==
  /\ (initErr[s] = "none" /\ initErr'[s] # "none") \/ Updated(s)
  /\ last'[s].rand # "none"
  /\ ~IsNil(AlphaOf(sess'[s]))

\* C33 as stated: the scalar sampled in InitCurve (initiator) and in Update
\* (responder) is 32 bytes long on ed25519 and 8 bytes long on the other curves.
ScalarWidth ==
  [][\A s \in Sessions :
       Sampled(s) =>
         Len(AlphaOf(sess'[s])) = IF IsEdwards(chosen) THEN 32 ELSE 8]_vars

\* C33 amended: the scalar sampled in InitCurve (initiator) and in Update
\* (responder) is 32 bytes long on every curve of pake.go; it is 8 bytes long
\* in the confirmation variant, which has no ed25519.
ScalarWidthByCode ==
  [][\A s \in Sessions :
       Sampled(s) =>
         Len(AlphaOf(sess'[s])) = IF IsCurrent THEN 32 ELSE 8]_vars

\* a responder of pake.go on a curve other than ed25519 has sampled 32 bytes
\* in a successful Update
ScalarWidthReached ==
  /\ IsCurrent /\ ~IsEdwards(chosen)
  /\ sess["A"].Role = 1 /\ calls["A"] > 0 /\ updErr["A"] = ""
  /\ last["A"].rand = "ok"
  /\ Len(sess["A"].Aalpha) = 32

\* the two exchanges have both been made in order, with one pw, and all four
\* sessions hold a key
TwoExchanges ==
  /\ PairInOrder("A", "B") /\ PairInOrder("C", "D")
  /\ PairBothKeys("A", "B") /\ PairBothKeys("C", "D")
  /\ \A s \in {"B", "C", "D"} : sess[s].Pw = sess["A"].Pw

\* the sampled bytes of the two exchanges differ, on either side
ScalarsDiffer ==
  \/ sess["A"].Aalpha # sess["C"].Aalpha
  \/ sess["B"].Aalpha # sess["D"].Aalpha

\* C34: two exchanges with the same pw and curve whose sampled scalars differ
\* end with different session keys.
FreshKeys ==
  (TwoExchanges /\ ScalarsDiffer)
    => SessionKey(sess["A"]).key # SessionKey(sess["C"]).key

\* the scalars the curve reads from the sampled bytes differ, on either side
ScalarsDifferInGroup ==
  \/ ScalarOf(chosen, sess["A"].Aalpha) # ScalarOf(chosen, sess["C"].Aalpha)
  \/ ScalarOf(chosen, sess["B"].Aalpha) # ScalarOf(chosen, sess["D"].Aalpha)

\* C34 amended: two exchanges with the same pw and curve end with different
\* session keys when the scalars the curve reads from the sampled bytes differ:
\* the bytes clamped and reduced modulo the order of G on ed25519, reduced
\* modulo the order of G on the other curves.
FreshKeysInGroup ==
  (TwoExchanges /\ ScalarsDifferInGroup)
    => SessionKey(sess["A"]).key # SessionKey(sess["C"]).key

\* two exchanges with one pw that differ in the responder's scalar only
FreshKeysReached ==
  /\ TwoExchanges
  /\ sess["A"].Pw # <<>>
  /\ sess["A"].Aalpha = sess["C"].Aalpha
  /\ sess["B"].Aalpha[1] # sess["D"].Aalpha[1]
  /\ ScalarOf(chosen, sess["B"].Aalpha) # ScalarOf(chosen, sess["D"].Aalpha)
  /\ SessionKey(sess["A"]).key # SessionKey(sess["C"]).key

\* the responder A on ed25519 has been given one message of the network
EdwardsAsked ==
  /\ IsEdwards(chosen)
  /\ sess["A"].Role = 1 /\ calls["A"] = 1 /\ peer["A"].from = "network"
  /\ ~IsNil(sess["A"].Xu)

\* x is the big-endian value of an encoding (of EdwardsParams.encLen bytes) of
\* a point of the curve
HoldsEncoding(x) ==
  /\ x \in 0..(256 - 1)
  /\ \E px \in 0..(EdwardsParams.p - 1) : OnEdwards(px, (x % 128) % EdwardsParams.p)

\* the integer whose bytes ed25519PointFromBigInts reads from x: |x| if it
\* fits the encoding, 0 otherwise
EncodingRead(x) == IF Abs(x) < 256 THEN Abs(x) ELSE 0

\* C35: on ed25519 the curve check of Update accepts X = (x, y) exactly when x
\* holds the encoding of a point of the curve, whatever y is.
EdwardsMembership ==
  EdwardsAsked =>
    ((updErr["A"] # ErrXNotOnCurve) <=> HoldsEncoding(Val(sess["A"].Xu)))

\* what the check does: it accepts X exactly when the bytes it reads from x
\* are the encoding of a point, whatever y is
EdwardsMembershipAsRead ==
  EdwardsAsked =>
    ((updErr["A"] # ErrXNotOnCurve) <=> HoldsEncoding(EncodingRead(Val(sess["A"].Xu))))

\* C36: an Update call given the JSON literal null, on a session InitCurve
\* returned, panics: it returns no error value, and it leaves the session as
\* it was.
NullPanics ==
  [][(Updated("A") /\ peer'["A"].kind = "null")
       => (updErr'["A"] = Panic /\ sess'["A"] = sess["A"])]_vars

\* a responder that holds no key yet has been given null
NullPanicsReached ==
  /\ sess["A"].Role = 1 /\ calls["A"] = 1
  /\ peer["A"].kind = "null"
  /\ updErr["A"] = Panic
  /\ ~HaveSessionKey(sess["A"])

\* pw and the six coordinates a session hashes
KeyTuple(p) == <<p.Pw, p.Xu, p.Xv, p.Yu, p.Yv, p.Zu, p.Zv>>

\* C37: two sessions that hold a key and different tuples (pw, X.x, X.y, Y.x,
\* Y.y, Z.x, Z.y) have hashed different byte strings.
HashInputInjective ==
  (/\ HaveSessionKey(sess["A"]) /\ HaveSessionKey(sess["B"])
   /\ KeyTuple(sess["A"]) # KeyTuple(sess["B"]))
    => HashInput(sess["A"]) # HashInput(sess["B"])

\* the coordinates are in [0, p) and satisfy the curve equation
AffineOnCurve(xy) ==
  /\ xy[1] \in 0..(EdwardsParams.p - 1) /\ xy[2] \in 0..(EdwardsParams.p - 1)
  /\ OnEdwards(xy[1], xy[2])

\* C38: fromAffine(toAffine(P)) is P for every point P of the curve;
\* toAffine(fromAffine(x, y)) is (x, y) for coordinates in [0, p) that are on
\* the curve; and the coordinates of the base point give the library's
\* generator.
AffineRoundTrip ==
  /\ (sess["A"].kind = "point" /\ calls["A"] = 2)
       => /\ sess["A"].point # <<>>
          /\ PointEqual(sess["A"].point[1], sess["A"].orig)
  /\ (sess["A"].kind = "affine" /\ calls["A"] >= 1 /\ AffineOnCurve(sess["A"].orig))
       => /\ sess["A"].point # <<>>
          /\ calls["A"] = 2 => sess["A"].affine = sess["A"].orig
          /\ sess["A"].orig = EdBase => PointEqual(sess["A"].point[1], Generator)

\* a point held with Z other than 1 has gone to coordinates and back
AffineRoundTripReached ==
  /\ sess["A"].kind = "point" /\ calls["A"] = 2
  /\ sess["A"].orig.Z # 1
  /\ sess["A"].affine # <<0, 1>>
  /\ sess["A"].point # <<>>
  /\ PointEqual(sess["A"].point[1], sess["A"].orig)

====
